---- MODULE Spec2Model ----
(***************************************************************************)
(* Model of the globe navigator's computation core:                        *)
(*   - utils.js      getLatLong, calculateCameraOrientation                *)
(*   - sphere.js     Globe.createSphereFromCube, Sun.dateToJulianDate,     *)
(*                   Sun.wrapDegrees, Sun.calculateSunPosition             *)
(*   - eventHandlers.js  EventManager.handleMouseMove and handleClick       *)
(*                                                                         *)
(* Numbers.  JavaScript numbers are IEEE doubles; here a real number is a  *)
(* fixed-point integer:                                                    *)
(*   - a dimensionless value or an angle in radians is scaled by One       *)
(*     (8 decimal digits),                                                 *)
(*   - an angle in degrees is counted in micro-degrees (Deg == 10^6).      *)
(* Every product of two scaled values goes through MulS, which splits the  *)
(* operands so that no intermediate exceeds 32 bits, and rounds.  NaN is a *)
(* reserved value that every arithmetic operator propagates.               *)
(***************************************************************************)
EXTENDS Integers, Sequences, FiniteSets, TLC

VARIABLES
    call,             \* the last application of a pure function: its name,
                      \* its arguments, its intermediate values, its result
    resolution,       \* Globe.createSphereFromCube: its argument
    positions,        \* geometry.attributes.position.array, a Float32Array
    originalPositions,\* the Float32Array of the 'originalPosition' attribute
    loopIndex,        \* the loop variable i of createSphereFromCube
    globePc,          \* "idle", "loop" (inside the for loop) or "done"
    groupRotationY,   \* EventManager: group.rotation.y, as group.matrixWorld has it
    planet_name,      \* this.planet_name
    biomeMarkers,     \* the userData of the meshes of this.biomeMarkers
    biomeFetches,     \* loadBiomeData: the planets of the manifest fetches in flight
    location,         \* window.location.href: the page, or the href navigated to
    isInteractingWithUI,
    isDragging,
    isSphereHovered,
    hitPoint,         \* intersects[0].point of the last ray cast, or NoHit
    positionInfo,     \* what positionInfo.innerHTML shows
    biomeInfoVisible, \* biomeInfo.style.display = 'block'
    cursorVisible,    \* cursor.visible
    deepLink,         \* the 'visible' class of deepLink and deepLinkAnchor, the
                      \* anchor's dataset and href
    markerVisible,    \* marker.visible
    markerCoreVisible,\* markerCore.visible
    isMarkerAnimating,
    arrowVisible,     \* the 'visible' class of arrowContainer
    arrowTimers,      \* the number of pending setTimeout callbacks of the arrow
    autoRotate,       \* EventManager: this.autoRotate
    mouseEvent,       \* the mouse event being dispatched and the listener it
                      \* has reached, or the event dispatched last
    pointerInside,    \* the mouse pointer is over the container
    debugEnabled,     \* Sun.CONFIG.DEBUG.ENABLED
    textureLoader,    \* App.textureLoader: planets, and the loads it has started
    app,              \* App: currentPlanetIndex, the globe's texture, the selector
    sun,              \* the Sun object: phiOffset, thetaOffset, group.position
                      \* and whether setGlobe has given it the globe
    lightUniforms,    \* globe.material.uniforms: lightPosition, lightIntensity
    lightControls,    \* the LightControls object: lightPosition, lightIntensity
    frame,            \* App.animate: the statement reached, the calls of
                      \* updateSunPosition since the frame began, and the
                      \* time that new Date() gave to the last of them
    sunResults        \* what calculateSunPosition returned for each instant
                      \* when it was first called with it

globeVars == <<resolution, positions, originalPositions, loopIndex, globePc>>

eventVars ==
    <<groupRotationY, planet_name, biomeMarkers, biomeFetches, location,
      isInteractingWithUI, isDragging,
      isSphereHovered, hitPoint, positionInfo, biomeInfoVisible, cursorVisible,
      deepLink, markerVisible, markerCoreVisible, isMarkerAnimating, arrowVisible,
      arrowTimers>>

sunVars == <<sun, lightUniforms, lightControls, frame, sunResults>>

planetVars == <<textureLoader, app>>

appVars == <<autoRotate, mouseEvent, pointerInside, debugEnabled, sunVars, planetVars>>

vars == <<call, globeVars, eventVars, appVars>>

\* ------------------------------------------------------------------------
\* Fixed-point kernel
\* ------------------------------------------------------------------------

Half == 100 * 100             \* the split base of MulS: One = Half * Half
One == Half * Half            \* 1.0
Deg == 1000 * 1000            \* one degree, in micro-degrees
NaN == 0 - 2147483647         \* the not-a-number value

IsNaN(a) == a = NaN

Abs(a) == IF a < 0 THEN -a ELSE a

Sign(a) == IF a < 0 THEN -1 ELSE IF a > 0 THEN 1 ELSE 0

Max2(a, b) == IF a >= b THEN a ELSE b

Min2(a, b) == IF a <= b THEN a ELSE b

\* a / b rounded to the nearest integer (b > 0), halves away from zero.
RoundDiv(a, b) == IF a >= 0 THEN (2 * a + b) \div (2 * b)
                  ELSE -((2 * (-a) + b) \div (2 * b))

\* a * b / One for 0 <= a, b <= 2 * One, rounded to nearest.
MulPos(a, b) ==
    LET a1 == a \div Half
        a0 == a % Half
        b1 == b \div Half
        b0 == b % Half
    IN  a1 * b1 + ((a1 * b0 + a0 * b1) + (a0 * b0 + Half \div 2) \div Half) \div Half

\* The product of two scaled reals.
MulS(a, b) == Sign(a) * Sign(b) * MulPos(Abs(a), Abs(b))

\* a * One / b for 0 <= a, 0 < b <= 2 * One and a quotient that fits:
\* schoolbook division, one decimal digit of the quotient at a time.
RECURSIVE DivDigits(_, _, _, _)
DivDigits(r, b, q, n) ==
    IF n = 0 THEN (IF 2 * r >= b THEN q + 1 ELSE q)
    ELSE DivDigits((10 * r) % b, b, 10 * q + (10 * r) \div b, n - 1)

DivPos(a, b) == DivDigits(a % b, b, a \div b, 8)

\* The quotient of two scaled reals (b /= 0).
DivS(a, b) == Sign(a) * Sign(b) * DivPos(Abs(a), Abs(b))

\* Exact squares and sums of squares are two-digit numbers in base One,
\* <<hi, lo>> standing for hi * One + lo with 0 <= lo < One.
Wide(hi, lo) == <<hi + lo \div One, lo % One>>

WideSquare(a) ==
    LET m == Abs(a)
        a1 == m \div Half
        a0 == m % Half
        mid == 2 * a1 * a0
    IN  Wide(a1 * a1 + mid \div Half, (mid % Half) * Half + a0 * a0)

WideAdd(u, v) == Wide(u[1] + v[1], u[2] + v[2])

WideLeq(u, v) == u[1] < v[1] \/ (u[1] = v[1] /\ u[2] <= v[2])

\* The largest s in lo..hi with s * s <= n, n a wide number: bisection.
RECURSIVE WideSqrtIn(_, _, _)
WideSqrtIn(n, lo, hi) ==
    IF lo >= hi THEN lo
    ELSE LET mid == (lo + hi + 1) \div 2
         IN  IF WideLeq(WideSquare(mid), n) THEN WideSqrtIn(n, mid, hi)
             ELSE WideSqrtIn(n, lo, mid - 1)

WideSqrt(n) == WideSqrtIn(n, 0, 4 * One)

\* Math.sqrt of a scaled real (NaN for a negative argument), rounded down.
SqrtS(v) ==
    IF IsNaN(v) \/ v < 0 THEN NaN ELSE WideSqrt(<<v, 0>>)

\* ------------------------------------------------------------------------
\* Angles and the Math.* functions
\* ------------------------------------------------------------------------

QuarterPi == 78539816         \* pi/4 in radians
HalfPi == 2 * QuarterPi
Pi == 4 * QuarterPi
RadPerDeg == 174532924        \* HalfPi / 90 degrees, scaled by One * 100
DegPerRad == 57295780         \* 90 degrees / HalfPi, scaled by One / 100

\* sin and cos of a reduced argument |r| <= pi/4: the Taylor polynomials in
\* Horner form.
\* One Horner step: 1 - x2 * p / n.
Horner(x2, p, n) == One - MulS(x2, p) \div n

SinPoly(r, x2) ==
    MulS(r, Horner(x2, Horner(x2, Horner(x2, Horner(x2, Horner(x2, One, 110),
                                                   72), 42), 20), 6))

CosPoly(x2) ==
    Horner(x2, Horner(x2, Horner(x2, Horner(x2, Horner(x2, Horner(x2, One, 132),
                                                       90), 56), 30), 12), 2)

TSin(r) == SinPoly(r, MulS(r, r))

TCos(r) == CosPoly(MulS(r, r))

\* sin(x + q * pi/2) for x in radians: x is reduced by the nearest multiple
\* of pi/2, so that the quadrant angles give exactly 0 and +-1.
SinOfQuadrant(r, m) ==
    CASE m = 0 -> TSin(r)
      [] m = 1 -> TCos(r)
      [] m = 2 -> -TSin(r)
      [] OTHER -> -TCos(r)

SinReduced(x, q, k) == SinOfQuadrant(x - k * HalfPi, (k + q) % 4)

SinShift(x, q) == SinReduced(x, q, (x + QuarterPi) \div HalfPi)

\* Math.sin, Math.cos
Sin(x) == IF IsNaN(x) THEN NaN ELSE SinShift(x, 0)

Cos(x) == IF IsNaN(x) THEN NaN ELSE SinShift(x, 1)

\* atan(u) for |u| <= tan(pi/8), by its power series.
RECURSIVE AtanSeries(_, _, _)
AtanSeries(u2, n, acc) ==
    IF n < 0 THEN acc
    ELSE AtanSeries(u2, n - 1, One \div (2 * n + 1) - MulS(u2, acc))

AtanSmall(u) == MulS(u, AtanSeries(MulS(u, u), 10, 0))

\* atan(t) for 0 <= t <= 1: above tan(pi/8), atan t = pi/4 + atan((t-1)/(t+1)).
AtanUnit(t) ==
    IF t <= 41421356 THEN AtanSmall(t)
    ELSE QuarterPi + AtanSmall(DivS(t - One, t + One))

\* atan(b / a) for a, b > 0.
AtanBase(a, b) ==
    IF b <= a THEN AtanUnit(DivS(b, a)) ELSE HalfPi - AtanUnit(DivS(a, b))

\* Math.atan2(y, x) in (-pi, pi]; atan2(0, 0) = 0.
Atan2(y, x) ==
    IF IsNaN(y) \/ IsNaN(x) THEN NaN
    ELSE IF y = 0 THEN (IF x >= 0 THEN 0 ELSE Pi)
    ELSE IF x = 0 THEN Sign(y) * HalfPi
    ELSE IF x > 0 THEN Sign(y) * AtanBase(Abs(x), Abs(y))
    ELSE Sign(y) * (Pi - AtanBase(Abs(x), Abs(y)))

\* Math.asin: NaN outside [-1, 1].
Asin(y) ==
    IF IsNaN(y) \/ y > One \/ y < -One THEN NaN
    ELSE Atan2(y, SqrtS(MulS(One - y, One + y)))

\* THREE.MathUtils.degToRad: degrees * (pi / 180).  The multiples of 90
\* degrees are converted exactly, the remainder by the scaled factor.
DegToRadOf(d, k) == k * HalfPi + MulS(d - k * 90 * Deg, RadPerDeg)

DegToRad(d) ==
    IF IsNaN(d) THEN NaN ELSE DegToRadOf(d, (d + 45 * Deg) \div (90 * Deg))

\* THREE.MathUtils.radToDeg: radians * (180 / pi).
RadToDegOf(x, k) == k * 90 * Deg + MulS(x - k * HalfPi, DegPerRad)

RadToDeg(x) ==
    IF IsNaN(x) THEN NaN ELSE RadToDegOf(x, (x + QuarterPi) \div HalfPi)

\* ------------------------------------------------------------------------
\* JavaScript arithmetic on numbers that may be NaN
\* ------------------------------------------------------------------------

FNeg(a) == IF IsNaN(a) THEN NaN ELSE -a

FAdd(a, b) == IF IsNaN(a) \/ IsNaN(b) THEN NaN ELSE a + b

FSub(a, b) == IF IsNaN(a) \/ IsNaN(b) THEN NaN ELSE a - b

FMul(a, b) == IF IsNaN(a) \/ IsNaN(b) THEN NaN ELSE MulS(a, b)

\* a / b; the only division by zero that arises is 0 / 0, which is NaN.
FDiv(a, b) == IF IsNaN(a) \/ IsNaN(b) \/ b = 0 THEN NaN ELSE DivS(a, b)

\* The % operator: the remainder takes the sign of the dividend.
JsRem(a, n) == IF a >= 0 THEN a % n ELSE -((-a) % n)

\* Number.toFixed(2) of an angle in degrees: hundredths of a degree.
ToFixed2(d) == IF IsNaN(d) THEN NaN ELSE RoundDiv(d, Deg \div 100)

\* ------------------------------------------------------------------------
\* THREE.Vector3 and THREE.Matrix3
\* ------------------------------------------------------------------------

Vec(x, y, z) == [x |-> x, y |-> y, z |-> z]

VecHasNaN(v) == IsNaN(v.x) \/ IsNaN(v.y) \/ IsNaN(v.z)

\* Vector3.length(): sqrt(x*x + y*y + z*z).  The sum of squares is kept
\* exact, so that, as in IEEE arithmetic where sqrt(y*y) = |y|, the length
\* is never below the magnitude of a component.
VecLength(v) ==
    IF VecHasNaN(v) THEN NaN
    ELSE WideSqrt(WideAdd(WideSquare(v.x), WideAdd(WideSquare(v.y), WideSquare(v.z))))

\* len || 1: 0 and NaN are falsy.
OrOne(len) == IF len = 0 \/ IsNaN(len) THEN One ELSE len

\* Mutant of NormalizeDivisor: the length itself, without "|| 1".
NormalizeDivisorUnguarded(v) == VecLength(v)

\* The divisor of Vector3.normalize(): length() || 1.
NormalizeDivisor(v) == OrOne(VecLength(v))

\* Vector3.divideScalar(scalar)
DivideScalar(v, scalar) ==
    Vec(FDiv(v.x, scalar), FDiv(v.y, scalar), FDiv(v.z, scalar))

\* Vector3.normalize(): divideScalar(length() || 1).
Normalize(v) == DivideScalar(v, NormalizeDivisor(v))

\* Vector3.crossVectors(a, b)
CrossVectors(a, b) ==
    Vec(FSub(FMul(a.y, b.z), FMul(a.z, b.y)),
        FSub(FMul(a.z, b.x), FMul(a.x, b.z)),
        FSub(FMul(a.x, b.y), FMul(a.y, b.x)))

\* Matrix3.set(n11, ..., n33) takes the entries row by row and stores them
\* column by column: elements[0..8] = n11 n21 n31 n12 n22 n32 n13 n23 n33.
Matrix3Set(r1, r2, r3) ==
    <<r1.x, r2.x, r3.x, r1.y, r2.y, r3.y, r1.z, r2.z, r3.z>>

\* elements[i], i counted from 0 as in the source.
Elements(m, i) == m[i + 1]

\* ------------------------------------------------------------------------
\* utils.js
\* ------------------------------------------------------------------------

\* Mutant of getLatLong: the arguments of atan2 exchanged.
getLatLongSwapped(point) ==
    [lat |-> RadToDeg(Asin(point.y)),
     long |-> RadToDeg(FNeg(Atan2(point.z, point.x)))]

\* getLatLong(point)
getLatLong(point) ==
    [lat |-> RadToDeg(Asin(point.y)),
     long |-> RadToDeg(FNeg(Atan2(point.x, point.z)))]

\* latitude = Math.max(-90, Math.min(90, latitude))
ClampLatitude(latitude) == Max2(-90 * Deg, Min2(90 * Deg, latitude))

\* longitude = ((longitude + 180) % 360) - 180
WrapLongitude(longitude) == JsRem(longitude + 180 * Deg, 360 * Deg) - 180 * Deg

\* x = cos(latRad) * sin(lonRad), y = sin(latRad), z = cos(latRad) * cos(lonRad)
NormalComponents(sinLat, cosLat, sinLon, cosLon) ==
    Vec(FMul(cosLat, sinLon), sinLat, FMul(cosLat, cosLon))

NormalOfAngles(latRad, lonRad) ==
    Normalize(NormalComponents(Sin(latRad), Cos(latRad), Sin(lonRad), Cos(lonRad)))

\* Mutant of CameraNormal: the longitude negated, which is the convention of
\* getLatLong.
CameraNormalMirrored(latitude, longitude) ==
    NormalOfAngles(DegToRad(ClampLatitude(latitude)),
                   FNeg(DegToRad(WrapLongitude(longitude))))

\* The surface normal of calculateCameraOrientation.
CameraNormal(latitude, longitude) ==
    NormalOfAngles(DegToRad(ClampLatitude(latitude)),
                   DegToRad(WrapLongitude(longitude)))

Up == Vec(0, One, 0)

\* Mutant of CameraRight: a fixed vector beyond 89.9 degrees of latitude.
CameraRightFallback(latitude, normal) ==
    IF Abs(latitude) > (899 * Deg) \div 10 THEN Vec(One, 0, 0)
    ELSE Normalize(CrossVectors(Vec(0, One, 0), normal))

\* let right = new THREE.Vector3().crossVectors(up, normal).normalize()
CameraRight(latitude, normal) == Normalize(CrossVectors(Up, normal))

\* recalculatedForward = crossVectors(normal, right).normalize()
CameraForward(normal, right) == Normalize(CrossVectors(normal, right))

\* Mutant of EulerOfMatrix: the roll is read as if elements were stored row
\* by row, from elements[1] (the x of normal) instead of elements[3].
EulerOfMatrixRowMajor(m) ==
    [yaw   |-> Atan2(Elements(m, 2), Elements(m, 8)),
     pitch |-> Atan2(FNeg(Elements(m, 5)),
                     SqrtS(FAdd(FMul(Elements(m, 3), Elements(m, 3)),
                                FMul(Elements(m, 4), Elements(m, 4))))),
     roll  |-> Atan2(Elements(m, 1), Elements(m, 4))]

\* yaw, pitch and roll read from the elements of the rotation matrix.
EulerOfMatrix(m) ==
    [yaw   |-> Atan2(Elements(m, 2), Elements(m, 8)),
     pitch |-> Atan2(FNeg(Elements(m, 5)),
                     SqrtS(FAdd(FMul(Elements(m, 3), Elements(m, 3)),
                                FMul(Elements(m, 4), Elements(m, 4))))),
     roll  |-> Atan2(Elements(m, 3), Elements(m, 4))]

\* calculateCameraOrientation(latitude, longitude)
OrientationOfBasis(normal, right) ==
    EulerOfMatrix(Matrix3Set(right, normal, CameraForward(normal, right)))

OrientationOfNormal(latitude, normal) ==
    OrientationOfBasis(normal, CameraRight(latitude, normal))

\* calculateCameraOrientation(latitude, longitude)
calculateCameraOrientation(latitude, longitude) ==
    OrientationOfNormal(latitude, CameraNormal(latitude, longitude))

\* ------------------------------------------------------------------------
\* The pure functions of utils.js applied to bounded inputs
\* ------------------------------------------------------------------------

GridN == 6                    \* steps of the latitude grid; longitude has 2 * GridN
PointK == 2                   \* raw points have coordinates i / PointK, |i| <= PointK

\* i / GridN of 180 degrees, to a thousandth of a degree, so that the grids
\* end on the poles and on the seam exactly.
GridAngle(i) == RoundDiv(180 * 1000 * i, GridN) * 1000

\* Latitudes of [-90, 90]: a grid, and the neighbourhood of the poles.  The
\* eight digits of the arithmetic resolve a direction down to 0.01 degree
\* from a pole; nearer latitudes other than the pole itself are left out.
LatDomain ==
    {GridAngle(i) - 90 * Deg : i \in 0..GridN}
        \cup {90 * Deg, -90 * Deg, 89990000, -89990000, 89900001, 1, -45500000}

\* Longitudes of (-180, 180]: a grid, and the neighbourhood of the seam.
LonDomain ==
    {GridAngle(j) - 180 * Deg : j \in 1..(2 * GridN)}
        \cup {180 * Deg, 179999999, -179999999, 500000, -72250000}

\* Arguments outside the nominal ranges.
LatOutside == {-135 * Deg, 90 * Deg + 1, 100 * Deg}

LonOutside == {-180 * Deg, -180 * Deg - 1, -270 * Deg, -360 * Deg, -540 * Deg,
               270 * Deg, 360 * Deg, 540 * Deg}

\* Unit vectors: the normalized points of a cubic grid.
UnitPoints ==
    {Normalize(Vec((One * i) \div PointK, (One * j) \div PointK, (One * k) \div PointK)) :
        <<i, j, k>> \in ((-PointK..PointK) \X (-PointK..PointK) \X (-PointK..PointK))
                            \ {<<0, 0, 0>>}}

\* The globe before createSphereFromCube is called.
GlobeIdle ==
    /\ resolution = 0
    /\ positions = <<>>
    /\ originalPositions = <<>>
    /\ loopIndex = 0
    /\ globePc = "idle"

NoHit == [x |-> NaN, y |-> NaN, z |-> NaN]

\* The EventManager as its constructor leaves it, the group not yet rotated.
\* window.location.href before any navigation.
ThePage == [page |-> "globe"]

EventManagerIdle ==
    /\ groupRotationY = 0
    /\ biomeMarkers = {}
    /\ biomeFetches = <<>>
    /\ location = ThePage
    /\ isInteractingWithUI = FALSE
    /\ isDragging = FALSE
    /\ isSphereHovered = FALSE
    /\ hitPoint = NoHit
    /\ positionInfo = [kind |-> "initial"]
    /\ biomeInfoVisible = FALSE
    /\ cursorVisible = FALSE
    /\ deepLink = [visible |-> FALSE, set |-> FALSE]
    /\ markerVisible = FALSE
    /\ markerCoreVisible = FALSE
    /\ isMarkerAnimating = FALSE
    /\ arrowVisible = FALSE
    /\ arrowTimers = 0

\* The EventManager of the planet "bob".
EventsIdle == planet_name = "bob" /\ EventManagerIdle

\* ------------------------------------------------------------------------
\* sphere.js: Sun.dateToJulianDate, Sun.wrapDegrees, Sun.calculateSunPosition
\* ------------------------------------------------------------------------

J2000_EPOCH == 2451545        \* Sun.CONFIG.EARTH.J2000_EPOCH, in days
OBLIQUITY == 23439000         \* Sun.CONFIG.EARTH.OBLIQUITY, in micro-degrees
SecondsPerDay == 24 * 3600

\* A Julian date is a record [day, sec] standing for day + sec / 86400; the
\* sum of the code is exact in it.
DayTime(day, sec) == [day |-> day, sec |-> sec]

\* The same instant with 0 <= sec < 86400.
NormalDayTime(t) ==
    DayTime(t.day + t.sec \div SecondsPerDay, t.sec % SecondsPerDay)

\* Mutant of dateToJulianDate: January and February are counted as months
\* 13 and 14 of the same year instead of the year before.
dateToJulianDateSameYear(date) ==
    LET month == date.month + 1
        y == date.year
        m == IF month > 2 THEN month ELSE month + 12
        a == y \div 100
        b == 2 - a + a \div 4
    IN  DayTime((1461 * (y + 4716)) \div 4 + (306001 * (m + 1)) \div 10000
                    + date.day + b - 1525,
                SecondsPerDay \div 2 + 3600 * date.hour + 60 * date.minute + date.second)

\* date is a record of the six UTC fields a Date gives, the month from 0.
dateToJulianDate(date) ==
    LET year == date.year
        month == date.month + 1
        day == date.day
        y == IF month > 2 THEN year ELSE year - 1
        m == IF month > 2 THEN month ELSE month + 12
        a == y \div 100
        b == 2 - a + a \div 4
    IN  \* floor(365.25 * (y + 4716)) + floor(30.6001 * (m + 1)) + d + b - 1524.5
        DayTime((1461 * (y + 4716)) \div 4 + (306001 * (m + 1)) \div 10000
                    + day + b - 1525,
                SecondsPerDay \div 2 + 3600 * date.hour + 60 * date.minute + date.second)

\* An angle that may be many turns is a pair <<deg, micro>> standing for
\* deg + micro / 10^6 degrees, the two of one sign and |micro| < 10^6.
BigDeg(deg, micro) ==
    LET d1 == deg + Sign(micro) * (Abs(micro) \div Deg)
        m1 == Sign(micro) * (Abs(micro) % Deg)
    IN  IF d1 > 0 /\ m1 < 0 THEN <<d1 - 1, m1 + Deg>>
        ELSE IF d1 < 0 /\ m1 > 0 THEN <<d1 + 1, m1 - Deg>>
        ELSE <<d1, m1>>

BigAdd(u, v) == BigDeg(u[1] + v[1], u[2] + v[2])

\* The exact product of 0 <= a, b <= 4 * One as a wide number.
WideMul(a, b) ==
    LET a1 == a \div Half
        a0 == a % Half
        b1 == b \div Half
        b0 == b % Half
        cross == a1 * b0 + a0 * b1
    IN  Wide(a1 * b1 + cross \div Half, (cross % Half) * Half + a0 * b0)

\* The whole days and the fraction of a day (a scaled real) of |ds| seconds.
WholeDays(ds) == Abs(ds) \div SecondsPerDay
DayFraction(ds) == DivPos(Abs(ds) % SecondsPerDay, SecondsPerDay)

\* The wide sum ci * whole + (cf * whole + ci * frac + cf * frac / One) / One.
DegreesSum(ci, whole, p1, p2, p3) ==
    Wide(ci * whole + p1[1] + p2[1], p1[2] + p2[2] + p3)

DegreesOfSum(sgn, sum) == BigDeg(sgn * sum[1], sgn * RoundDiv(sum[2], 100))

DegreesOfDays(ci, cf, sgn, whole, frac) ==
    DegreesOfSum(sgn, DegreesSum(ci, whole, WideMul(whole, cf), WideMul(ci, frac),
                                 MulPos(cf, frac)))

\* (ci + cf / One) * d degrees, d a number of days given in seconds.
DegreesPerDay(ci, cf, ds) ==
    DegreesOfDays(ci, cf, Sign(ds), WholeDays(ds), DayFraction(ds))

\* Mutant of WrapValue: the comparison reversed.
WrapValueReversed(v) == IF v < 180 * Deg THEN v - 360 * Deg ELSE v

\* return degrees > 180 ? degrees - 360 : degrees
WrapValue(v) == IF v > 180 * Deg THEN v - 360 * Deg ELSE v

\* degrees = degrees % 360; return degrees > 180 ? degrees - 360 : degrees
\* The argument is a BigDeg, the result a number of micro-degrees.
wrapDegrees(degrees) == WrapValue(JsRem(degrees[1], 360) * Deg + degrees[2])

\* d / 36525.0 as a scaled real.
JulianCenturies(ds) ==
    Sign(ds) * (DivPos(WholeDays(ds), 36525) + RoundDiv(DayFraction(ds), 36525))

\* const d = julianDate - J2000_EPOCH, in seconds.
DaysSinceEpoch(julianDate) ==
    (julianDate.day - J2000_EPOCH) * SecondsPerDay + julianDate.sec

\* const g = wrapDegrees(357.529 + 0.98560028 * d)
MeanAnomaly(ds) ==
    wrapDegrees(BigAdd(<<357, 529000>>, DegreesPerDay(0, 98560028, ds)))

\* const q = wrapDegrees(280.459 + 0.98564736 * d)
MeanLongitude(ds) ==
    wrapDegrees(BigAdd(<<280, 459000>>, DegreesPerDay(0, 98564736, ds)))

\* const L = wrapDegrees(q + 1.915 * sin(gRad) + 0.020 * sin(2 * gRad))
EclipticLongitudeOf(q, gRad) ==
    wrapDegrees(BigDeg(0, q + MulS(1915000, Sin(gRad)) + MulS(20000, Sin(2 * gRad))))

EclipticLongitude(ds) ==
    EclipticLongitudeOf(MeanLongitude(ds), DegToRad(MeanAnomaly(ds)))

\* const e = OBLIQUITY - 0.00000036 * d
ObliquityOfDate(ds) == OBLIQUITY - DegreesPerDay(0, 36, ds)[2]

\* const RA = atan2(cos(eRad) * sinL, cosL)
RightAscensionOf(cosE, sinL, cosL) == Atan2(MulS(cosE, sinL), cosL)

\* Mutant of DeclinationOf: the sign of sin(lRad) lost.
DeclinationMirrored(sinE, sinL) == Asin(MulS(sinE, -sinL))

\* const dec = asin(sin(eRad) * sinL)
DeclinationOf(sinE, sinL) == Asin(MulS(sinE, sinL))

\* 0.000387933 * T * T - T * T * T / 38710000, in micro-degrees.
SiderealTerms(t, t2) ==
    RoundDiv(MulS(38793, t2), 100) - RoundDiv(RoundDiv(MulS(t2, t), 38710000), 100)

SiderealTimeOf(ds, t) ==
    wrapDegrees(BigAdd(BigAdd(<<280, 460618>>, DegreesPerDay(360, 98564737, ds)),
                       BigDeg(0, SiderealTerms(t, MulS(t, t)))))

\* const GMST = wrapDegrees(280.46061837 + 360.98564736629 * d + ...)
SiderealTime(ds) == SiderealTimeOf(ds, JulianCenturies(ds))

SunCoordinates(raDeg, gmst, dec) ==
    [longitude |-> wrapDegrees(BigDeg(0, raDeg - gmst)),
     latitude |-> RadToDeg(dec)]

SunOfSines(ds, sinE, cosE, sinL, cosL) ==
    SunCoordinates(RadToDeg(RightAscensionOf(cosE, sinL, cosL)), SiderealTime(ds),
                   DeclinationOf(sinE, sinL))

SunOfAngles(ds, eRad, lRad) ==
    SunOfSines(ds, Sin(eRad), Cos(eRad), Sin(lRad), Cos(lRad))

\* calculateSunPosition for d days after the epoch, d given in seconds.
SunPosition(ds) ==
    SunOfAngles(ds, DegToRad(ObliquityOfDate(ds)), DegToRad(EclipticLongitude(ds)))

calculateSunPosition(date) == SunPosition(DaysSinceEpoch(dateToJulianDate(date)))

\* The six UTC fields of a Date, the month from 0.
UtcDate(year, month, day, hour, minute, second) ==
    [year |-> year, month |-> month, day |-> day,
     hour |-> hour, minute |-> minute, second |-> second]

\* ------------------------------------------------------------------------
\* sphere.js: the Sun object; lightControls.js
\* ------------------------------------------------------------------------

SUN_DISTANCE == 25            \* Sun.CONFIG.EARTH.SUN_DISTANCE
PHI_OFFSET == 90              \* Sun.CONFIG.POSITION.PHI_OFFSET, in degrees
THETA_OFFSET == 120           \* Sun.CONFIG.POSITION.THETA_OFFSET, in degrees

\* A coordinate of a position in the scene is counted in millionths.
LengthOne == Deg

\* The instants that new Date() gives in the model.
FrameDates == {UtcDate(2000, 0, 1, 12, 0, 0), UtcDate(2000, 5, 21, 5, 0, 0)}

\* x = r sin(phi) sin(theta), y = r cos(phi), z = r sin(phi) cos(theta)
SphericalOf(radius, sinPhi, cosPhi, sinTheta, cosTheta) ==
    Vec(radius * RoundDiv(MulS(sinPhi, sinTheta), One \div LengthOne),
        radius * RoundDiv(cosPhi, One \div LengthOne),
        radius * RoundDiv(MulS(sinPhi, cosTheta), One \div LengthOne))

\* Vector3.setFromSphericalCoords(radius, phi, theta)
SetFromSphericalCoords(radius, phi, theta) ==
    SphericalOf(radius, Sin(phi), Cos(phi), Sin(theta), Cos(theta))

\* Mutant of SunCalculate: the offset of theta is added to the longitude
\* that is returned.
SunCalculateWithOffset(self, date) ==
    [self |-> self,
     result |-> [calculateSunPosition(date) EXCEPT
                    !.longitude = @ + self.thetaOffset * Deg]]

\* this.calculateSunPosition(date): the object after the call and what the
\* call returns.  No line of it reads or writes a field of this, and of
\* Sun.CONFIG it reads EARTH only.
SunCalculate(self, date) ==
    [self |-> self, result |-> calculateSunPosition(date)]

\* The group's position for a computed longitude and latitude.
SunGroupPosition(self, position) ==
    SetFromSphericalCoords(SUN_DISTANCE,
                           DegToRad(self.phiOffset * Deg - position.latitude),
                           DegToRad(position.longitude + self.thetaOffset * Deg))

SunMovedTo(self, position) ==
    [self EXCEPT !.position = SunGroupPosition(self, position)]

\* updateSunPosition(date), the Sun object after it.
UpdatedSun(self, date) == SunMovedTo(self, SunCalculate(self, date).result)

\* Mutant of UpdatedUniforms: the uniform is left alone.
UniformsKept(uniforms, self) == uniforms

\* updateSunPosition(date), the globe's uniforms after it:
\* if (this.globe) lightPosition.value.copy(this.group.position)
UpdatedUniforms(uniforms, self) ==
    IF self.globe THEN [uniforms EXCEPT !.lightPosition = self.position]
    ELSE uniforms

\* calculateSunPosition has not been called with the instant yet.
NoResult == [called |-> FALSE]

\* The Sun as App.init leaves it: built at the first instant with the
\* default offsets and then given the globe; the uniforms and the
\* LightControls as their constructors leave them; no frame yet.
SunIdle ==
    /\ sun = UpdatedSun([phiOffset |-> PHI_OFFSET, thetaOffset |-> THETA_OFFSET,
                         position |-> Vec(0, 0, 0), globe |-> TRUE],
                        UtcDate(2000, 0, 1, 12, 0, 0))
    /\ lightUniforms = [lightPosition |-> Vec(5 * LengthOne, 0, 0), lightIntensity |-> 10]
    /\ lightControls = [lightPosition |-> Vec(5 * LengthOne, 0, 0), lightIntensity |-> 10]
    /\ frame = [pc |-> "idle", sunUpdates |-> 0, date |-> UtcDate(2000, 0, 1, 12, 0, 0)]
    /\ sunResults = [date \in FrameDates |-> NoResult]

\* No frame is being drawn: events are handled between two frames only.
BetweenFrames == frame.pc \in {"idle", "rendered"}

\* No mouse event has been dispatched yet.
NoEvent == [type |-> "none", phase |-> "done"]

\* --- textureLoader.js: TextureLoader.init; the values of JavaScript it meets ---

Undefined == [kind |-> "undefined"]
Null == [kind |-> "null"]
ListOf(names) == [kind |-> "list", names |-> names]
StringOf(text) == [kind |-> "string", text |-> text]
ObjectWith(planets) == [kind |-> "object", planets |-> planets]

\* The two TextureLoader classes of the repository.
Versions == {"js/textureLoader.js", "part_002"}

\* this.planets = ["bob"] and this.planets = ["planet_hd_2025-04"]
Fallback(version) ==
    IF version = "js/textureLoader.js" THEN ListOf(<<"bob">>)
    ELSE ListOf(<<"planet_hd_2025-04">>)

\* The lists a planets.json of the server may hold.
ServedLists == {<<>>, <<"bob">>, <<"planet_hd_2025-04", "bob">>}

\* What fetch('./planets.json') and response.json() come to: the fetch is
\* rejected, the body is not JSON, or the body is parsed to a value.
Responses ==
    {[kind |-> "networkError"], [kind |-> "unparsable"]}
        \cup {[kind |-> "json", data |-> d] :
                d \in {Null, ObjectWith(Undefined), ObjectWith(StringOf("bob"))}
                        \cup {ObjectWith(ListOf(l)) : l \in ServedLists}}

\* Reading a property of undefined or null throws a TypeError.
ThrowsOnProperty(value) == value \in {Undefined, Null}

\* The statements of the try block throw: await fetch, await
\* response.json(), data.planets and, in js/textureLoader.js only,
\* this.planets.length in the console.log.
InitThrows(version, response) ==
    \/ response.kind \in {"networkError", "unparsable"}
    \/ ThrowsOnProperty(response.data)
    \/ /\ version = "js/textureLoader.js"
       /\ ThrowsOnProperty(response.data.planets)

\* async init(): this.planets when it completes.  An assignment made before
\* a later statement throws is overwritten in the catch block.
TextureLoaderInit(version, response) ==
    IF InitThrows(version, response) THEN Fallback(version)
    ELSE response.data.planets

\* planets[index] inside a template string or as a name: the element, or
\* undefined where there is none.
PlanetAt(planets, index) ==
    IF planets.kind = "list" /\ index + 1 \in 1..Len(planets.names)
    THEN planets.names[index + 1] ELSE "undefined"

\* The TextureLoader and the App of a page that runs with the one planet
\* of the fallback list, its texture loaded.
PlanetsIdle ==
    /\ textureLoader =
           [version |-> (IF planet_name = "bob" THEN "js/textureLoader.js" ELSE "part_002"),
            planets |-> ListOf(<<planet_name>>),
            response |-> [kind |-> "networkError"],
            loads |-> <<[planet |-> planet_name, index |-> 0, by |-> "init",
                         state |-> "done"]>>]
    /\ app = [pc |-> "running", currentPlanetIndex |-> 0, texture |-> planet_name,
              selectValue |-> 0]

\* The rest of the program as its constructors leave it.
AppIdle ==
    /\ autoRotate = TRUE
    /\ mouseEvent = NoEvent
    /\ pointerInside = TRUE
    /\ debugEnabled = FALSE
    /\ SunIdle
    /\ PlanetsIdle

InitUtils == call = [fn |-> "none"] /\ GlobeIdle /\ EventsIdle /\ AppIdle

\* getLatLong(point) for a unit vector.
CallGetLatLong ==
    /\ call.fn = "none"
    /\ UNCHANGED <<globeVars, eventVars, appVars>>
    /\ \E p \in UnitPoints :
        call' = [fn |-> "getLatLong", point |-> p, result |-> getLatLong(p)]

\* calculateCameraOrientation(latitude, longitude), with the values it
\* computes on the way.
CameraCallOf(latitude, longitude, normal, right) ==
    [fn |-> "calculateCameraOrientation",
     latitude |-> latitude, longitude |-> longitude,
     usedLatitude |-> ClampLatitude(latitude),
     usedLongitude |-> WrapLongitude(longitude),
     normal |-> normal, right |-> right,
     forward |-> CameraForward(normal, right),
     result |-> calculateCameraOrientation(latitude, longitude)]

CameraCall(latitude, longitude, normal) ==
    CameraCallOf(latitude, longitude, normal, CameraRight(latitude, normal))

CallCalculateCameraOrientation ==
    /\ call.fn = "none"
    /\ UNCHANGED <<globeVars, eventVars, appVars>>
    /\ \E latitude \in LatDomain \cup LatOutside, longitude \in LonDomain \cup LonOutside :
        call' = CameraCall(latitude, longitude, CameraNormal(latitude, longitude))

\* The normal that calculateCameraOrientation builds for (latitude,
\* longitude), handed to getLatLong.
LatLongOfNormalCall(latitude, longitude, normal) ==
    [fn |-> "getLatLongOfNormal", latitude |-> latitude, longitude |-> longitude,
     normal |-> normal, result |-> getLatLong(normal)]

CallGetLatLongOfNormal ==
    /\ call.fn = "none"
    /\ UNCHANGED <<globeVars, eventVars, appVars>>
    /\ \E latitude \in LatDomain, longitude \in LonDomain :
        call' = LatLongOfNormalCall(latitude, longitude,
                                    CameraNormal(latitude, longitude))

NextUtils == CallGetLatLong \/ CallCalculateCameraOrientation \/ CallGetLatLongOfNormal

SpecUtils == InitUtils /\ [][NextUtils]_vars

\* ------------------------------------------------------------------------
\* Properties of utils.js
\* ------------------------------------------------------------------------

\* Tolerances of the fixed-point arithmetic.  Eight digits resolve a
\* direction within 0.25 degrees of a pole to about 0.005 degrees.
AngleTol == Deg \div 100      \* 0.01 degree
ValueTol == One \div 1000000  \* 1e-6
RightTol == One \div 10000    \* 1e-4
PoleLimit == (899 * Deg) \div 10

\* The distance of two angles in degrees, around the circle.
AngleDist(a, b) ==
    LET d == Abs(a - b) % (360 * Deg) IN Min2(d, 360 * Deg - d)

\* A defined angle in radians.
FiniteAngle(a) == ~IsNaN(a) /\ -Pi <= a /\ a <= Pi

IsCameraCall == call.fn = "calculateCameraOrientation"

C3_LongitudeWrappedClaimed ==
    IsCameraCall =>
        /\ -180 * Deg < call.usedLongitude /\ call.usedLongitude <= 180 * Deg
        /\ (call.usedLongitude - call.longitude) % (360 * Deg) = 0
        /\ -90 * Deg <= call.usedLatitude /\ call.usedLatitude <= 90 * Deg
        /\ (Abs(call.latitude) <= 90 * Deg => call.usedLatitude = call.latitude)

C7_OrientationDefined ==
    (IsCameraCall /\ Abs(call.latitude) <= 90 * Deg) =>
        /\ FiniteAngle(call.result.yaw)
        /\ FiniteAngle(call.result.pitch)
        /\ FiniteAngle(call.result.roll)

\* C7, witness: the exact pole, where right and forward are the zero vector.
C7_Witness ==
    /\ IsCameraCall
    /\ call.latitude = 90 * Deg
    /\ call.right = Vec(0, 0, 0) /\ call.forward = Vec(0, 0, 0)
    /\ FiniteAngle(call.result.yaw)

\* C8: for a unit vector v, getLatLong(v) has lat in [-90, 90] and long in
\* [-180, 180], with sin(lat) = v.y and (v.x, v.z) pointing along
\* (-sin long, cos long), that is lat = asin(v.y), long = -atan2(v.x, v.z).
C8_LatLongOfUnitVector ==
    call.fn = "getLatLong" =>
        LET lat == call.result.lat
            long == call.result.long
            h == VecLength(Vec(call.point.x, 0, call.point.z))
        IN  /\ ~IsNaN(lat) /\ -90 * Deg <= lat /\ lat <= 90 * Deg
            /\ ~IsNaN(long) /\ -180 * Deg <= long /\ long <= 180 * Deg
            /\ Abs(Sin(DegToRad(lat)) - call.point.y) <= ValueTol
            /\ Abs(call.point.x + MulS(h, Sin(DegToRad(long)))) <= ValueTol
            /\ Abs(call.point.z - MulS(h, Cos(DegToRad(long)))) <= ValueTol

\* C25: for a latitude strictly between -90 and 90 and any longitude, the y
\* of 'right' is 0 and the roll is 0 for a latitude >= 0 and of magnitude pi
\* for a latitude < 0, whatever the longitude.
C25_RollOfLatitudeSign ==
    (IsCameraCall /\ Abs(call.latitude) < 90 * Deg) =>
        /\ call.right.y = 0
        /\ (call.latitude >= 0 => call.result.roll = 0)
        /\ (call.latitude < 0 => Abs(call.result.roll) = Pi)

\* C25, witness: a southern latitude away from the meridians of the axes,
\* with a roll of magnitude pi.
C25_Witness ==
    /\ IsCameraCall
    /\ call.latitude < 0 /\ call.latitude > -90 * Deg
    /\ call.normal.x < 0 /\ call.normal.z > 0
    /\ call.right.y = 0
    /\ Abs(call.result.roll) = Pi

\* C8, witness: a unit vector of the octant x > 0, y < 0, z < 0.
C8_Witness ==
    /\ call.fn = "getLatLong"
    /\ call.point.x > 0 /\ call.point.z < 0 /\ call.point.y < 0
    /\ call.result.long < -90 * Deg /\ call.result.lat < 0

\* ------------------------------------------------------------------------
\* sphere.js: Globe.createSphereFromCube
\* ------------------------------------------------------------------------

MaxResolution == 3            \* the model's resolutions are 1..MaxResolution

\* A number stored in a Float32Array keeps 24 significant bits: below 1 that
\* is a step of at most 6e-8, modelled as rounding to 8 units of One.
Fround(v) == RoundDiv(v, 8) * 8

\* The faces of THREE.BoxGeometry in the order it builds them (px, nx, py,
\* ny, pz, nz): the axes u, v, w of the plane (1 = x, 2 = y, 3 = z), the
\* directions of u and v, and the side of w.
BoxFaces ==
    << <<3, 2, 1, -1, -1,  1>>, <<3, 2, 1,  1, -1, -1>>,
       <<1, 3, 2,  1,  1,  1>>, <<1, 3, 2,  1, -1, -1>>,
       <<1, 2, 3,  1, -1,  1>>, <<1, 2, 3, -1, -1, -1>> >>

\* ix * segment - half for a box of side 2 cut into res segments.
GridCoordinate(ix, res) == RoundDiv(2 * One * ix, res) - One

\* The vertex (ix, iy) of face f, as <<x, y, z>>.
BoxVertex(f, ix, iy, res) ==
    LET face == BoxFaces[f]
        c == [a \in 1..3 |->
                 IF a = face[1] THEN GridCoordinate(ix, res) * face[4]
                 ELSE IF a = face[2] THEN GridCoordinate(iy, res) * face[5]
                 ELSE One * face[6]]
    IN  <<Fround(c[1]), Fround(c[2]), Fround(c[3])>>

\* new THREE.BoxGeometry(2, 2, 2, res, res, res).attributes.position.array:
\* per face (res + 1)^2 vertices, row by row, three numbers each.
BoxPositions(res) ==
    LET n == res + 1
    IN  [k \in 1..(18 * n * n) |->
            LET v == (k - 1) \div 3
                f == v \div (n * n) + 1
                iy == (v % (n * n)) \div n
                ix == v % n
            IN  BoxVertex(f, ix, iy, res)[((k - 1) % 3) + 1]]

\* One coordinate of Phil Nowell's mapping: a * sqrt(1 - b2/2 - c2/2 + b2*c2/3).
NowellCoordinate(a, b2, c2) ==
    MulS(a, SqrtS(One - b2 \div 2 - c2 \div 2 + MulS(b2, c2) \div 3))

\* Mutant of DeformedPositions: each coordinate is computed from the array
\* as it stands, so y' uses the new x and z' the new x and y.
DeformedPositionsInPlace(pos, i) ==
    LET p1 == [pos EXCEPT ![i + 1] =
                  Fround(NowellCoordinate(pos[i + 1], MulS(pos[i + 2], pos[i + 2]),
                                          MulS(pos[i + 3], pos[i + 3])))]
        p2 == [p1 EXCEPT ![i + 2] =
                  Fround(NowellCoordinate(p1[i + 2], MulS(p1[i + 3], p1[i + 3]),
                                          MulS(p1[i + 1], p1[i + 1])))]
    IN  [p2 EXCEPT ![i + 3] =
            Fround(NowellCoordinate(p2[i + 3], MulS(p2[i + 1], p2[i + 1]),
                                    MulS(p2[i + 2], p2[i + 2])))]

\* Lines 36-38 and 46-53: x, y, z are read first, then the three entries
\* of the position array are overwritten.
DeformedPositions(pos, i) ==
    LET x == pos[i + 1]
        y == pos[i + 2]
        z == pos[i + 3]
        x2 == MulS(x, x)
        y2 == MulS(y, y)
        z2 == MulS(z, z)
    IN  [pos EXCEPT ![i + 1] = Fround(NowellCoordinate(x, y2, z2)),
                    ![i + 2] = Fround(NowellCoordinate(y, z2, x2)),
                    ![i + 3] = Fround(NowellCoordinate(z, x2, y2))]

\* Mutant of SavedOriginals: the entries are copied after the position
\* array was overwritten.
SavedOriginalsLate(orig, pos, i) ==
    LET new == DeformedPositions(pos, i)
    IN  [orig EXCEPT ![i + 1] = Fround(new[i + 1]),
                     ![i + 2] = Fround(new[i + 2]),
                     ![i + 3] = Fround(new[i + 3])]

\* Lines 41-43: the cube's coordinates are stored in originalPositions.
SavedOriginals(orig, pos, i) ==
    [orig EXCEPT ![i + 1] = Fround(pos[i + 1]),
                 ![i + 2] = Fround(pos[i + 2]),
                 ![i + 3] = Fround(pos[i + 3])]

InitGlobe == call = [fn |-> "none"] /\ GlobeIdle /\ EventsIdle /\ AppIdle

\* createSphereFromCube(resolution) up to the loop: the box geometry and a
\* zero-filled Float32Array of the same length.
CreateSphereFromCube ==
    /\ globePc = "idle"
    /\ \E res \in 1..MaxResolution :
        /\ resolution' = res
        /\ positions' = BoxPositions(res)
        /\ originalPositions' = [k \in 1..(18 * (res + 1) * (res + 1)) |-> 0]
    /\ loopIndex' = 0
    /\ globePc' = "loop"
    /\ UNCHANGED <<call, eventVars, appVars>>

\* One iteration of the loop over the vertices.
DeformVertex ==
    /\ globePc = "loop"
    /\ loopIndex < Len(positions)
    /\ originalPositions' = SavedOriginals(originalPositions, positions, loopIndex)
    /\ positions' = DeformedPositions(positions, loopIndex)
    /\ loopIndex' = loopIndex + 3
    /\ UNCHANGED <<call, eventVars, appVars, resolution, globePc>>

\* The loop is over: the attribute is set and the geometry returned.
ReturnGeometry ==
    /\ globePc = "loop"
    /\ loopIndex >= Len(positions)
    /\ globePc' = "done"
    /\ UNCHANGED <<call, eventVars, appVars, resolution, positions, originalPositions, loopIndex>>

NextGlobe == CreateSphereFromCube \/ DeformVertex \/ ReturnGeometry

SpecGlobe == InitGlobe /\ [][NextGlobe]_vars

\* ------------------------------------------------------------------------
\* Properties of createSphereFromCube
\* ------------------------------------------------------------------------

MagnitudeTol == One \div 10000  \* 1e-4

\* The indices (from 0, in steps of 3) of the vertices already deformed.
DeformedVertices == {i \in 0..(loopIndex - 1) : i % 3 = 0}

CubeSurfacePoint(c, i) ==
    /\ \A a \in 1..3 : -One <= c[i + a] /\ c[i + a] <= One
    /\ \E a \in 1..3 : Abs(c[i + a]) = One

\* C4: every vertex of the cube's surface is moved to a position of
\* magnitude 1, each coordinate being computed from the vertex's original
\* x, y and z.
C4_VerticesOnUnitSphere ==
    globePc # "idle" =>
        LET cube == BoxPositions(resolution)
        IN  \A i \in DeformedVertices :
                LET x == cube[i + 1]
                    y == cube[i + 2]
                    z == cube[i + 3]
                    len == VecLength(Vec(positions[i + 1], positions[i + 2], positions[i + 3]))
                IN  /\ CubeSurfacePoint(cube, i)
                    /\ Abs(len - One) <= MagnitudeTol
                    /\ Sign(positions[i + 1]) = Sign(x)
                    /\ Sign(positions[i + 2]) = Sign(y)
                    /\ Sign(positions[i + 3]) = Sign(z)

\* C4, witness: a corner of the cube has been deformed, and the loop is over.
C4_Witness ==
    /\ globePc = "done"
    /\ resolution >= 2
    /\ \E i \in DeformedVertices :
        /\ Abs(BoxPositions(resolution)[i + 1]) = One
        /\ Abs(BoxPositions(resolution)[i + 2]) = One
        /\ Abs(BoxPositions(resolution)[i + 3]) = One
        /\ Abs(positions[i + 1]) < One

\* C5: originalPositions holds, for every vertex deformed so far, exactly
\* the cube coordinate it had before the deformation, whatever was written
\* to the position array since; it has the length and the vertex order of
\* the position array.
C5_OriginalsPreserved ==
    globePc # "idle" =>
        LET cube == BoxPositions(resolution)
        IN  /\ Len(originalPositions) = Len(positions)
            /\ Len(originalPositions) = Len(cube)
            /\ \A i \in DeformedVertices :
                   \A a \in 1..3 : originalPositions[i + a] = cube[i + a]

\* C5, witness: the loop is over and some entry of the position array
\* differs from the original kept for it.
C5_Witness ==
    /\ globePc = "done"
    /\ loopIndex = Len(positions)
    /\ \E k \in 1..Len(positions) : positions[k] # originalPositions[k]

\* ------------------------------------------------------------------------
\* The Sun's functions applied to bounded inputs
\* ------------------------------------------------------------------------

YearSpan == 1                 \* the years 2000 - YearSpan .. 2000 + YearSpan
WrapTurns == 3                \* wrapDegrees is applied to +-WrapTurns turns

IsLeapYear(year) == year % 4 = 0 /\ (year % 100 # 0 \/ year % 400 = 0)

DaysInMonth(year, month) ==
    IF month = 2 THEN (IF IsLeapYear(year) THEN 29 ELSE 28)
    ELSE IF month \in {4, 6, 9, 11} THEN 30 ELSE 31

DateYears == ((2000 - YearSpan)..(2000 + YearSpan)) \cup {1900, 2100}

ClockTimes == {<<0, 0, 0>>, <<11, 59, 59>>, <<12, 0, 0>>, <<23, 59, 59>>}

\* Every day of the years of DateYears, at four times of the day.
Dates ==
    {UtcDate(ymd[1], ymd[2], ymd[3], c[1], c[2], c[3]) :
        ymd \in {x \in DateYears \X (0..11) \X (1..31) :
                    x[3] <= DaysInMonth(x[1], x[2] + 1)},
        c \in ClockTimes}

\* Days around the equinoxes and solstices and the epoch, hour by hour.
SunDates ==
    {UtcDate(y, md[1], md[2], h, 0, 0) :
        y \in (2000 - YearSpan)..(2000 + YearSpan),
        md \in {<<0, 1>>, <<2, 20>>, <<5, 21>>, <<8, 22>>, <<11, 31>>},
        h \in {0, 1, 5, 11, 12, 13, 19, 23}}

WrapInputs ==
    {BigDeg(45 * k, 0) : k \in (-8 * WrapTurns)..(8 * WrapTurns)}
        \cup {BigDeg(180 * k, m) : k \in (-2 * WrapTurns)..(2 * WrapTurns), m \in {-1, 1}}

InitSun == call = [fn |-> "none"] /\ GlobeIdle /\ EventsIdle /\ AppIdle

CallDateToJulianDate ==
    /\ call.fn = "none"
    /\ UNCHANGED <<globeVars, eventVars, appVars>>
    /\ \E date \in Dates :
        call' = [fn |-> "dateToJulianDate", date |-> date,
                 result |-> dateToJulianDate(date)]

\* wrapDegrees(degrees) and wrapDegrees applied to what it returned.
WrapCall(degrees, result) ==
    [fn |-> "wrapDegrees", degrees |-> degrees, result |-> result,
     twice |-> wrapDegrees(BigDeg(0, result))]

CallWrapDegrees ==
    /\ call.fn = "none"
    /\ UNCHANGED <<globeVars, eventVars, appVars>>
    /\ \E degrees \in WrapInputs :
        call' = WrapCall(degrees, wrapDegrees(degrees))

CallCalculateSunPosition ==
    /\ call.fn = "none"
    /\ UNCHANGED <<globeVars, eventVars, appVars>>
    /\ \E date \in SunDates :
        call' = [fn |-> "calculateSunPosition", date |-> date,
                 d |-> DaysSinceEpoch(dateToJulianDate(date)),
                 result |-> calculateSunPosition(date)]

NextSun == CallDateToJulianDate \/ CallWrapDegrees \/ CallCalculateSunPosition

SpecSun == InitSun /\ [][NextSun]_vars

\* ------------------------------------------------------------------------
\* Properties of the Sun's functions
\* ------------------------------------------------------------------------

InHalfOpenRange(a) == -180 * Deg < a /\ a <= 180 * Deg

\* C2: wrapDegrees returns a value in (-180, 180] congruent to its argument
\* modulo 360, for negative arguments below -180 too, and so the longitude
\* of calculateSunPosition lies in (-180, 180] for every date.
C2_WrappedIntoHalfOpenRange ==
    /\ call.fn = "wrapDegrees" =>
          /\ InHalfOpenRange(call.result)
          /\ (call.degrees[1] * Deg + call.degrees[2] - call.result) % (360 * Deg) = 0
    /\ call.fn = "calculateSunPosition" => InHalfOpenRange(call.result.longitude)

\* C11: wrapDegrees applied to a value it returned gives that value back.
C11_WrapIdempotent ==
    call.fn = "wrapDegrees" => call.twice = call.result

\* C11, witness: an argument beyond a half turn that wrapDegrees has moved,
\* and a second application that left the result alone.
C11_Witness ==
    /\ call.fn = "wrapDegrees"
    /\ call.degrees[1] > 180
    /\ call.result < 0
    /\ call.twice = call.result

\* The instant 2000-01-01T12:00:00Z.
IsEpochNoon(date) ==
    date = UtcDate(2000, 0, 1, 12, 0, 0)

\* C15: for 2000-01-01T12:00:00Z the latitude of calculateSunPosition, the
\* declination of the Sun, lies in [-23.5, -22.0] degrees.
C15_EpochDeclination ==
    (call.fn = "calculateSunPosition" /\ IsEpochNoon(call.date)) =>
        /\ ~IsNaN(call.result.latitude)
        /\ -23500000 <= call.result.latitude
        /\ call.result.latitude <= -22 * Deg

\* C15, witness: calculateSunPosition was called for that instant, zero days
\* after the epoch, and returned a southern latitude.
C15_Witness ==
    /\ call.fn = "calculateSunPosition"
    /\ IsEpochNoon(call.date)
    /\ call.d = 0
    /\ call.result.latitude < 0

\* The days from 2000-01-01 to the first day of a year, by the leap rule.
LeapDaysBefore(year) ==
    (year - 1) \div 4 - (year - 1) \div 100 + (year - 1) \div 400

DaysBeforeYear(year) ==
    365 * (year - 2000) + LeapDaysBefore(year) - LeapDaysBefore(2000)

RECURSIVE DaysBeforeMonth(_, _)
DaysBeforeMonth(year, month) ==
    IF month = 1 THEN 0
    ELSE DaysBeforeMonth(year, month - 1) + DaysInMonth(year, month - 1)

\* The time elapsed since 2000-01-01T12:00:00Z, counted on the calendar.
ElapsedSinceEpoch(date) ==
    NormalDayTime(DayTime(
        DaysBeforeYear(date.year) + DaysBeforeMonth(date.year, date.month + 1)
            + date.day - 1,
        3600 * date.hour + 60 * date.minute + date.second - SecondsPerDay \div 2))

\* C10: dateToJulianDate returns 2451545.0 plus the days elapsed since
\* 2000-01-01T12:00:00Z, for every whole second of the dates of the model.
C10_JulianDateIsElapsedDays ==
    call.fn = "dateToJulianDate" =>
        NormalDayTime(DayTime(call.result.day - J2000_EPOCH, call.result.sec))
            = ElapsedSinceEpoch(call.date)

\* C10, witness: the last second of the leap day 2000-02-29, 59 days and
\* 12 hours less a second after the epoch.
C10_Witness ==
    /\ call.fn = "dateToJulianDate"
    /\ call.date.month = 1 /\ call.date.day = 29 /\ call.date.hour = 23
    /\ NormalDayTime(DayTime(call.result.day - J2000_EPOCH, call.result.sec))
           = DayTime(59, SecondsPerDay \div 2 - 1)

\* ------------------------------------------------------------------------
\* EventManager: handleMouseMove, handleClick and what they call
\* ------------------------------------------------------------------------
\* The camera is no part of the state: it decides only which point a ray
\* hits, and that point is an input of the handlers.  The positions of the
\* cursor and of the markers are left out with it; their visibility is kept.

rotationSpeed == 100000       \* this.rotationSpeed = 0.001, radians per frame
MaxFrames == 1                \* the group has turned for 0..MaxFrames frames
MaxTimers == 2                \* at most MaxTimers arrow timeouts are pending

\* group.rotation.y after some frames of App.animate, and after a thousand.
GroupRotations ==
    {f * rotationSpeed : f \in 0..MaxFrames} \cup {1000 * rotationSpeed}

\* Points where a ray meets the sphere, in world coordinates, as the
\* raycaster computes them: on the sphere, a little inside it (the mesh is
\* made of flat triangles), and at the poles off by one or two units of the
\* last place, with y outside [-1, 1].
HitPoints ==
    {Vec(0, One + 1, 0), Vec(2, -One - 2, -1),
     Vec(-48 * Deg, 60 * Deg, -64 * Deg), Vec((6 * One) \div 10 - 700, -3, (8 * One) \div 10 - 900)}

\* The manifest's locations, in radians: userData of a biome marker.
BiomeLocations ==
    {[name |-> "camp", biomeType |-> "polar_desert",
      latitude |-> DegToRad(-60 * Deg), longitude |-> DegToRad(135 * Deg)]}

\* The locations of the manifest of a planet: each planet has its own.
BiomeLocationsOf(planet) ==
    IF planet = "bob" THEN BiomeLocations
    ELSE {[name |-> "ridge", biomeType |-> "TUNDRA",
           latitude |-> DegToRad(30 * Deg), longitude |-> DegToRad(-45 * Deg)]}

\* point.applyMatrix4(this.group.matrixWorld.clone().invert()): the group is
\* only ever turned about the y axis, so that the inverse turns back.
TurnedBack(point, c, s) ==
    Vec(FSub(FMul(c, point.x), FMul(s, point.z)),
        point.y,
        FAdd(FMul(s, point.x), FMul(c, point.z)))

ApplyInverseGroupMatrix(point, rotationY) ==
    TurnedBack(point, Cos(rotationY), Sin(rotationY))

\* Mutant of LocalUnitPoint: the point is passed on as it is.
LocalPointAsIs(point, rotationY) == ApplyInverseGroupMatrix(point, rotationY)

\* The point both handlers give to getLatLong: taken to the group's frame
\* and normalized.
LocalUnitPoint(point, rotationY) ==
    Normalize(ApplyInverseGroupMatrix(point, rotationY))

\* this.radiansToDegrees(radians)
radiansToDegrees(radians) == RadToDeg(radians)

\* The planet given to the constructor: one of the names of the lists that
\* TextureLoader.init falls back to.
PlanetNames == {"bob", "planet_hd_2025-04"}

InitEvents ==
    /\ call = [fn |-> "none"]
    /\ GlobeIdle
    /\ groupRotationY \in GroupRotations
    /\ planet_name \in PlanetNames
    /\ biomeMarkers \in {{}, BiomeLocationsOf(planet_name)}
    /\ biomeFetches = <<>>
    /\ location = ThePage
    /\ isInteractingWithUI = FALSE
    /\ isDragging = FALSE
    /\ isSphereHovered = FALSE
    /\ hitPoint = NoHit
    /\ positionInfo = [kind |-> "initial"]
    /\ biomeInfoVisible = FALSE
    /\ cursorVisible = FALSE
    /\ deepLink = [visible |-> FALSE, set |-> FALSE]
    /\ markerVisible = FALSE
    /\ markerCoreVisible = FALSE
    /\ isMarkerAnimating = FALSE
    /\ arrowVisible = FALSE
    /\ arrowTimers = 0
    /\ AppIdle

\* positionInfo.innerHTML = `Lat: ${coords.lat.toFixed(2)} Long: ${coords.long.toFixed(2)}`
SurfaceInfo(coords) ==
    [kind |-> "surface", lat |-> ToFixed2(coords.lat), long |-> ToFixed2(coords.long)]

\* handleMouseMove(event): the rays of the event meet the sphere at sphereHit
\* (or not at all) and the first biome marker biomeHit (or none).  While the
\* light controls are used the handler returns at once.  handleDrag, called
\* at the end while dragging, moves the camera only.
HandleMouseMove ==
    /\ IF isInteractingWithUI
       THEN UNCHANGED <<hitPoint, positionInfo, biomeInfoVisible, cursorVisible,
                        isSphereHovered>>
       ELSE \E sphereHit \in HitPoints \cup {NoHit}, biomeHit \in biomeMarkers \cup {NoHit} :
        /\ hitPoint' = sphereHit
        /\ IF biomeHit # NoHit
           THEN /\ positionInfo' =
                       [kind |-> "biome",
                        lat |-> ToFixed2(radiansToDegrees(biomeHit.latitude)),
                        long |-> ToFixed2(radiansToDegrees(biomeHit.longitude))]
                /\ biomeInfoVisible' = TRUE
                /\ cursorVisible' = FALSE
                /\ UNCHANGED isSphereHovered
           ELSE IF sphereHit # NoHit
           THEN /\ positionInfo' =
                       SurfaceInfo(getLatLong(LocalUnitPoint(sphereHit, groupRotationY)))
                /\ biomeInfoVisible' = FALSE
                /\ cursorVisible' = TRUE
                /\ isSphereHovered' = (IF isDragging THEN isSphereHovered ELSE TRUE)
           ELSE /\ positionInfo' = [kind |-> "none"]
                /\ biomeInfoVisible' = FALSE
                /\ cursorVisible' = FALSE
                /\ isSphereHovered' = (IF isDragging THEN isSphereHovered ELSE FALSE)
    /\ UNCHANGED <<call, globeVars, appVars, groupRotationY, planet_name, biomeMarkers, biomeFetches, location,
                   isInteractingWithUI, isDragging, deepLink, markerVisible,
                   markerCoreVisible, isMarkerAnimating, arrowVisible, arrowTimers>>

\* Mutant of DeepLinkWith: latitude and longitude exchanged in the href.
DeepLinkExchanged(coords, planet, camera_angles) ==
    [visible |-> TRUE, set |-> TRUE, coords |-> coords,
     lat |-> ToFixed2(coords.lat), long |-> ToFixed2(coords.long),
     href |-> [longitude |-> DegToRad(coords.lat), latitude |-> DegToRad(coords.long),
               rotation |-> <<camera_angles.yaw, camera_angles.pitch,
                              camera_angles.roll>>,
               planet_name |-> planet]]

\* The anchor after updateDeepLink(coords); coords is kept beside the
\* dataset, which holds it to two decimals only.
DeepLinkWith(coords, planet, camera_angles) ==
    [visible |-> TRUE, set |-> TRUE, coords |-> coords,
     lat |-> ToFixed2(coords.lat), long |-> ToFixed2(coords.long),
     href |-> [longitude |-> DegToRad(coords.long), latitude |-> DegToRad(coords.lat),
               rotation |-> <<camera_angles.yaw, camera_angles.pitch,
                              camera_angles.roll>>,
               planet_name |-> planet]]

\* updateDeepLink(coords): the dataset and the href of the anchor.
DeepLinkOf(coords, planet) ==
    DeepLinkWith(coords, planet, calculateCameraOrientation(coords.lat, coords.long))

\* handleClick(event) when the ray meets the sphere: handleSphereClick(point)
\* with updateDeepLink and updateMarker, the arrow and its timeout.
HandleSphereClickAt(points) ==
    /\ arrowTimers < MaxTimers
    /\ \E point \in points :
        /\ hitPoint' = point
        /\ deepLink' = DeepLinkOf(getLatLong(LocalUnitPoint(point, groupRotationY)),
                                  planet_name)
    /\ markerVisible' = TRUE
    /\ markerCoreVisible' = TRUE
    /\ isMarkerAnimating' = TRUE
    /\ arrowVisible' = TRUE
    /\ arrowTimers' = arrowTimers + 1
    /\ UNCHANGED <<call, globeVars, appVars, groupRotationY, planet_name, biomeMarkers, biomeFetches, location,
                   isInteractingWithUI, isDragging, isSphereHovered, positionInfo,
                   biomeInfoVisible, cursorVisible>>

HandleSphereClick == HandleSphereClickAt(HitPoints)

\* handleClick(event) when the ray misses the sphere: handleOutsideClick().
HandleOutsideClick ==
    /\ hitPoint' = NoHit
    /\ deepLink' = [deepLink EXCEPT !.visible = FALSE]
    /\ arrowVisible' = FALSE
    /\ markerVisible' = FALSE
    /\ markerCoreVisible' = FALSE
    /\ isMarkerAnimating' = FALSE
    /\ UNCHANGED <<call, globeVars, appVars, groupRotationY, planet_name, biomeMarkers, biomeFetches, location,
                   isInteractingWithUI, isDragging, isSphereHovered, positionInfo,
                   biomeInfoVisible, cursorVisible, arrowTimers>>

\* The callback of setTimeout(..., 5000) in handleSphereClick.
ArrowTimeout ==
    /\ arrowTimers > 0
    /\ arrowTimers' = arrowTimers - 1
    /\ arrowVisible' = FALSE
    /\ UNCHANGED <<call, globeVars, appVars, groupRotationY, planet_name, biomeMarkers, biomeFetches, location,
                   isInteractingWithUI, isDragging, isSphereHovered, hitPoint,
                   positionInfo, biomeInfoVisible, cursorVisible, deepLink,
                   markerVisible, markerCoreVisible, isMarkerAnimating>>

NextEvents == HandleMouseMove \/ HandleSphereClick \/ HandleOutsideClick \/ ArrowTimeout

SpecEvents == InitEvents /\ [][NextEvents]_vars

\* ------------------------------------------------------------------------
\* Properties of the EventManager's handlers
\* ------------------------------------------------------------------------

\* lat is a number of hundredths of a degree in [-90.00, 90.00].
DefinedLatitude(lat) == ~IsNaN(lat) /\ -9000 <= lat /\ lat <= 9000

\* C9: whatever point of HitPoints a ray meets, with y outside [-1, 1] too,
\* the latitude that handleMouseMove shows and the latitude that
\* handleSphereClick puts into the deep link are defined numbers in
\* [-90, 90], never NaN.
C9_LatitudeDefined ==
    /\ positionInfo.kind = "surface" => DefinedLatitude(positionInfo.lat)
    /\ deepLink.set =>
          /\ DefinedLatitude(deepLink.lat)
          /\ ~IsNaN(deepLink.href.latitude)
          /\ Abs(deepLink.href.latitude) <= HalfPi

\* C9, witness: a ray met the sphere at a point with y above 1 and the
\* handlers have shown and linked the latitude 90.00.
C9_Witness ==
    /\ hitPoint # NoHit
    /\ hitPoint.y > One
    /\ positionInfo.kind = "surface" /\ positionInfo.lat = 9000
    /\ deepLink.set /\ deepLink.visible /\ deepLink.lat = 9000

\* C14: the deep link made by a click at (lat, long) carries long and lat
\* converted to radians, the yaw, pitch and roll of
\* calculateCameraOrientation(lat, long), and the planet_name of the
\* EventManager.
C14_DeepLinkOfClick ==
    deepLink.visible =>
        /\ deepLink.href.longitude = DegToRad(deepLink.coords.long)
        /\ deepLink.href.latitude = DegToRad(deepLink.coords.lat)
        /\ deepLink.href.rotation =
               <<calculateCameraOrientation(deepLink.coords.lat, deepLink.coords.long).yaw,
                 calculateCameraOrientation(deepLink.coords.lat, deepLink.coords.long).pitch,
                 calculateCameraOrientation(deepLink.coords.lat, deepLink.coords.long).roll>>
        /\ deepLink.href.planet_name = planet_name

\* C14, witness: a click north of the equator in the second quadrant of
\* longitude, on the planet of the second list.
C14_Witness ==
    /\ deepLink.visible
    /\ planet_name = "planet_hd_2025-04"
    /\ deepLink.coords.lat > 30 * Deg
    /\ deepLink.coords.long > 90 * Deg
    /\ deepLink.href.latitude > 0
    /\ deepLink.href.longitude > HalfPi
    /\ deepLink.href.planet_name = "planet_hd_2025-04"

\* ------------------------------------------------------------------------
\* EventManager: the mouse buttons and the light controls
\* ------------------------------------------------------------------------
\* A mouse event goes from its target up to the document.  The container
\* carries handleMouseDown and handleMouseUp, the document carries the two
\* listeners of the constructor; the panel .light-controls is a child of the
\* container, so that an event inside it reaches the container's listener
\* first and the document's second.  "page" is a target outside the
\* container, whose events reach the document only; the pointer gets there
\* by leaving the container, which fires mouseleave.  mouseleave does not
\* bubble.  The panel is displayed in debug mode only.

ContainerTargets == {"globe"} \cup (IF debugEnabled THEN {"controls"} ELSE {})

\* The event on its way: dispatched to the listeners up to 'phase', with the
\* values of isDragging and autoRotate from before the dispatch.
Dispatched(type, target, phase) ==
    [type |-> type, target |-> target, phase |-> phase,
     before |-> [isDragging |-> isDragging, autoRotate |-> autoRotate]]

\* window 'keydown' with e.key === 'd': Sun.setDebugMode(!Sun.isDebugMode())
\* and lightControls.updateVisibility().
KeyDownD ==
    /\ mouseEvent.phase = "done"
    /\ BetweenFrames
    /\ debugEnabled' = ~debugEnabled
    /\ UNCHANGED <<call, globeVars, eventVars, sunVars, planetVars, autoRotate,
                   mouseEvent, pointerInside>>

\* handleMouseDown returns at once while isInteractingWithUI is set.
MouseDownStarts(interacting) == ~interacting

\* handleMouseDown(event), the container's listener, for a target inside the
\* container.
HandleMouseDown ==
    /\ mouseEvent.phase = "done"
    /\ pointerInside
    /\ \E target \in ContainerTargets :
        mouseEvent' = Dispatched("mousedown", target, "document")
    /\ IF MouseDownStarts(isInteractingWithUI)
       THEN /\ isDragging' = TRUE
            /\ autoRotate' = FALSE
            /\ arrowVisible' = FALSE
       ELSE UNCHANGED <<isDragging, autoRotate, arrowVisible>>
    /\ UNCHANGED <<call, globeVars, sunVars, debugEnabled, planetVars, pointerInside, groupRotationY, planet_name,
                   biomeMarkers, biomeFetches, location, isInteractingWithUI, isSphereHovered, hitPoint,
                   positionInfo, biomeInfoVisible, cursorVisible, deepLink,
                   markerVisible, markerCoreVisible, isMarkerAnimating, arrowTimers>>

\* The document's mousedown listener: after the container's, or alone for a
\* target outside the container.
DocumentMouseDown ==
    /\ \/ /\ mouseEvent.phase = "document"
          /\ mouseEvent.type = "mousedown"
          /\ mouseEvent' = [mouseEvent EXCEPT !.phase = "done"]
       \/ /\ mouseEvent.phase = "done"
          /\ ~pointerInside
          /\ mouseEvent' = Dispatched("mousedown", "page", "done")
    /\ isInteractingWithUI' =
           (IF mouseEvent'.target = "controls" THEN TRUE ELSE isInteractingWithUI)
    /\ UNCHANGED <<call, globeVars, sunVars, debugEnabled, planetVars, pointerInside, autoRotate, groupRotationY,
                   planet_name, biomeMarkers, biomeFetches, location, isDragging, isSphereHovered, hitPoint,
                   positionInfo, biomeInfoVisible, cursorVisible, deepLink,
                   markerVisible, markerCoreVisible, isMarkerAnimating, arrowVisible,
                   arrowTimers>>

\* handleMouseUp returns at once while isInteractingWithUI is set.
MouseUpEnds(interacting) == ~interacting

\* handleMouseUp(), the container's listener.
HandleMouseUp ==
    /\ mouseEvent.phase = "done"
    /\ pointerInside
    /\ \E target \in ContainerTargets :
        mouseEvent' = Dispatched("mouseup", target, "document")
    /\ isDragging' = (IF MouseUpEnds(isInteractingWithUI) THEN FALSE ELSE isDragging)
    /\ UNCHANGED <<call, globeVars, sunVars, debugEnabled, planetVars, pointerInside, autoRotate, groupRotationY,
                   planet_name, biomeMarkers, biomeFetches, location, isInteractingWithUI, isSphereHovered,
                   hitPoint, positionInfo, biomeInfoVisible, cursorVisible, deepLink,
                   markerVisible, markerCoreVisible, isMarkerAnimating, arrowVisible,
                   arrowTimers>>

\* The document's mouseup listener.
DocumentMouseUp ==
    /\ \/ /\ mouseEvent.phase = "document"
          /\ mouseEvent.type = "mouseup"
          /\ mouseEvent' = [mouseEvent EXCEPT !.phase = "done"]
       \/ /\ mouseEvent.phase = "done"
          /\ ~pointerInside
          /\ mouseEvent' = Dispatched("mouseup", "page", "done")
    /\ isInteractingWithUI' = FALSE
    /\ UNCHANGED <<call, globeVars, sunVars, debugEnabled, planetVars, pointerInside, autoRotate, groupRotationY,
                   planet_name, biomeMarkers, biomeFetches, location, isDragging, isSphereHovered, hitPoint,
                   positionInfo, biomeInfoVisible, cursorVisible, deepLink,
                   markerVisible, markerCoreVisible, isMarkerAnimating, arrowVisible,
                   arrowTimers>>

\* handleMouseLeave(), the container's listener.
HandleMouseLeave ==
    /\ mouseEvent.phase = "done"
    /\ pointerInside
    /\ pointerInside' = FALSE
    /\ mouseEvent' = Dispatched("mouseleave", "container", "done")
    /\ IF isInteractingWithUI
       THEN UNCHANGED <<isDragging, cursorVisible, positionInfo, biomeInfoVisible,
                        isSphereHovered>>
       ELSE /\ isDragging' = FALSE
            /\ cursorVisible' = FALSE
            /\ positionInfo' = [kind |-> "none"]
            /\ biomeInfoVisible' = FALSE
            /\ isSphereHovered' = FALSE
    /\ UNCHANGED <<call, globeVars, sunVars, debugEnabled, planetVars, autoRotate, groupRotationY,
                   planet_name, biomeMarkers, biomeFetches, location, isInteractingWithUI, hitPoint, deepLink,
                   markerVisible, markerCoreVisible, isMarkerAnimating, arrowVisible,
                   arrowTimers>>

\* The pointer comes back over the container; mouseenter has no listener.
PointerEnters ==
    /\ mouseEvent.phase = "done"
    /\ ~pointerInside
    /\ pointerInside' = TRUE
    /\ UNCHANGED <<call, globeVars, eventVars, sunVars, autoRotate, mouseEvent, debugEnabled, planetVars>>

\* A mousemove over the container, between two dispatches.
MouseMove == mouseEvent.phase = "done" /\ pointerInside /\ HandleMouseMove

InitMouse == call = [fn |-> "none"] /\ GlobeIdle /\ EventsIdle /\ AppIdle

NextMouse ==
    \/ KeyDownD
    \/ HandleMouseDown
    \/ DocumentMouseDown
    \/ HandleMouseUp
    \/ DocumentMouseUp
    \/ HandleMouseLeave
    \/ PointerEnters
    \/ MouseMove

SpecMouse == InitMouse /\ [][NextMouse]_vars

\* ------------------------------------------------------------------------
\* Properties of the mouse buttons
\* ------------------------------------------------------------------------

\* The event of this type has been dispatched to all its listeners.
DispatchOver(type) == mouseEvent.type = type /\ mouseEvent.phase = "done"

\* C16: after a mousedown inside the light controls has been dispatched to
\* all listeners, isDragging and autoRotate are what they were before it.
C16_ControlsStartNoDrag ==
    (DispatchOver("mousedown") /\ mouseEvent.target = "controls") =>
        /\ isDragging = mouseEvent.before.isDragging
        /\ autoRotate = mouseEvent.before.autoRotate

\* C17: after a mouseup has been dispatched to all listeners no drag is
\* active.
C17_MouseUpEndsDrag ==
    DispatchOver("mouseup") => ~isDragging

\* ------------------------------------------------------------------------
\* The Sun object, the light controls and App.animate
\* ------------------------------------------------------------------------

PhiSlider == {45, PHI_OFFSET, 135}  \* values of the phi slider, in degrees
ThetaSlider == {THETA_OFFSET, 300}  \* values of the theta slider, in degrees
IntensitySlider == {5, 20}          \* values of the intensity slider, in tenths

\* updateSunPosition(new Date()) outside a frame or inside one.
FrameAfterUpdate(date) ==
    IF BetweenFrames THEN [frame EXCEPT !.pc = "idle"]
    ELSE [pc |-> "updated", sunUpdates |-> frame.sunUpdates + 1, date |-> date]

\* this.updateSunPosition(new Date()) on the object 'self'.
UpdateSunPosition(self, date) ==
    /\ sun' = UpdatedSun(self, date)
    /\ lightUniforms' = UpdatedUniforms(lightUniforms, UpdatedSun(self, date))
    /\ frame' = FrameAfterUpdate(date)

\* The phi slider's 'input' listener: sun.setPhiOffset(val).
SetPhiOffset ==
    /\ BetweenFrames
    /\ \E val \in PhiSlider, date \in FrameDates :
        UpdateSunPosition([sun EXCEPT !.phiOffset = val], date)
    /\ UNCHANGED <<call, globeVars, eventVars, autoRotate, mouseEvent, pointerInside,
                   debugEnabled, planetVars, lightControls, sunResults>>

\* The theta slider's 'input' listener: sun.setThetaOffset(val).
SetThetaOffset ==
    /\ BetweenFrames
    /\ \E val \in ThetaSlider, date \in FrameDates :
        UpdateSunPosition([sun EXCEPT !.thetaOffset = val], date)
    /\ UNCHANGED <<call, globeVars, eventVars, autoRotate, mouseEvent, pointerInside,
                   debugEnabled, planetVars, lightControls, sunResults>>

\* The intensity slider's 'input' listener: onUpdate(this.lightPosition,
\* this.lightIntensity), which copies both into the globe's uniforms.
IntensityInput ==
    /\ BetweenFrames
    /\ \E val \in IntensitySlider :
        /\ lightControls' = [lightControls EXCEPT !.lightIntensity = val]
        /\ lightUniforms' = [lightPosition |-> lightControls.lightPosition,
                             lightIntensity |-> val]
    /\ frame' = [frame EXCEPT !.pc = "idle"]
    /\ UNCHANGED <<call, globeVars, eventVars, autoRotate, mouseEvent, pointerInside,
                   debugEnabled, planetVars, sun, sunResults>>

\* The record of a call and the results known after it.
CalculateCall(date, self, r) ==
    [fn |-> "Sun.calculateSunPosition", date |-> date, result |-> r.result,
     selfKept |-> (r.self = self)]

FirstResults(results, date, r) ==
    IF results[date] = NoResult THEN [results EXCEPT ![date] = r.result] ELSE results

SunCalculated(date, r) ==
    /\ call' = CalculateCall(date, sun, r)
    /\ sun' = r.self
    /\ sunResults' = FirstResults(sunResults, date, r)

\* sun.calculateSunPosition(date), called between two frames.
CallSunCalculate ==
    /\ BetweenFrames
    /\ \E date \in FrameDates : SunCalculated(date, SunCalculate(sun, date))
    /\ UNCHANGED <<globeVars, eventVars, autoRotate, mouseEvent, pointerInside,
                   debugEnabled, planetVars, lightUniforms, lightControls, frame>>

InitSunObject == call = [fn |-> "none"] /\ GlobeIdle /\ EventsIdle /\ AppIdle

NextSunObject == SetPhiOffset \/ SetThetaOffset \/ KeyDownD \/ CallSunCalculate

SpecSunObject == InitSunObject /\ [][NextSunObject]_vars

MaxTurn == 2                  \* the group turns for at most MaxTurn frames

\* animate(): requestAnimationFrame, and
\* if (this.eventManager.autoRotate) this.group.rotation.y += rotationSpeed
AnimateRotate ==
    /\ BetweenFrames
    /\ mouseEvent.phase = "done"
    /\ autoRotate => groupRotationY < MaxTurn * rotationSpeed
    /\ groupRotationY' =
           (IF autoRotate THEN groupRotationY + rotationSpeed ELSE groupRotationY)
    /\ frame' = [frame EXCEPT !.pc = "rotated", !.sunUpdates = 0]
    /\ UNCHANGED <<call, globeVars, autoRotate, mouseEvent, pointerInside, debugEnabled, planetVars,
                   sun, lightUniforms, lightControls, sunResults, planet_name,
                   biomeMarkers, biomeFetches, location, isInteractingWithUI, isDragging, isSphereHovered,
                   hitPoint, positionInfo, biomeInfoVisible, cursorVisible, deepLink,
                   markerVisible, markerCoreVisible, isMarkerAnimating, arrowVisible,
                   arrowTimers>>

\* this.lightControls.update(): the sprite, which is the Sun's group, is put
\* at the lightPosition of the controls.
LightControlsUpdate ==
    /\ frame.pc = "rotated"
    /\ sun' = [sun EXCEPT !.position = lightControls.lightPosition]
    /\ frame' = [frame EXCEPT !.pc = "lit"]
    /\ UNCHANGED <<call, globeVars, eventVars, autoRotate, mouseEvent, pointerInside,
                   debugEnabled, planetVars, lightUniforms, lightControls, sunResults>>

\* this.sun.update(deltaTime): this.updateSunPosition(new Date()); the
\* shader time and the particles are left out.
SunUpdate ==
    /\ frame.pc = "lit"
    /\ \E date \in FrameDates : UpdateSunPosition(sun, date)
    /\ UNCHANGED <<call, globeVars, eventVars, autoRotate, mouseEvent, pointerInside,
                   debugEnabled, planetVars, lightControls, sunResults>>

\* sun.updateOrientation, updateMarkerAnimation and renderer.render change
\* nothing that is modelled: the frame is over.
Render ==
    /\ frame.pc = "updated"
    /\ frame' = [frame EXCEPT !.pc = "rendered"]
    /\ UNCHANGED <<call, globeVars, eventVars, autoRotate, mouseEvent, pointerInside,
                   debugEnabled, planetVars, sun, lightUniforms, lightControls, sunResults>>

InitFrame ==
    /\ call = [fn |-> "none"]
    /\ GlobeIdle
    /\ EventsIdle
    /\ mouseEvent = NoEvent
    /\ pointerInside = TRUE
    /\ debugEnabled = TRUE
    /\ autoRotate \in BOOLEAN
    /\ SunIdle
    /\ PlanetsIdle

NextFrame ==
    \/ AnimateRotate
    \/ LightControlsUpdate
    \/ SunUpdate
    \/ Render
    \/ IntensityInput
    \/ SetPhiOffset
    \/ SetThetaOffset

SpecFrame == InitFrame /\ [][NextFrame]_vars

LengthTol == LengthOne \div 1000   \* 0.001 of a unit of length

\* C13: at the end of a frame updateSunPosition has run once in it, with
\* the time of that frame, and the globe's lightPosition uniform is the
\* position it gave to the Sun's group, SUN_DISTANCE from the origin, and
\* not the lightPosition of the LightControls.
C13_LightFollowsSun ==
    frame.pc = "rendered" =>
        /\ frame.sunUpdates = 1
        /\ sun.position = SunGroupPosition(sun, calculateSunPosition(frame.date))
        /\ lightUniforms.lightPosition = sun.position
        /\ lightUniforms.lightPosition # lightControls.lightPosition
        /\ Abs(VecLength(lightUniforms.lightPosition) - SUN_DISTANCE * LengthOne)
               <= LengthTol

\* C13, witness: a frame that has ended after the intensity slider and an
\* offset slider were moved.
C13_Witness ==
    /\ frame.pc = "rendered"
    /\ frame.sunUpdates = 1
    /\ lightControls.lightIntensity # 10
    /\ lightUniforms.lightIntensity = lightControls.lightIntensity
    /\ sun.thetaOffset # THETA_OFFSET
    /\ lightUniforms.lightPosition = sun.position

\* ------------------------------------------------------------------------
\* App.init, App.changePlanet and the loads of TextureLoader.loadTextures
\* ------------------------------------------------------------------------

MaxLoads == 3                 \* the loads started after the default one

\* loadTextures(planet_name): the images are requested, the promise waits
\* for the onLoad callback.
StartLoad(loads, index, by) ==
    Append(loads, [planet |-> PlanetAt(textureLoader.planets, index), index |-> index,
                   by |-> by, state |-> "pending", returned |-> FALSE])

\* The page before App.init: no EventManager yet, the globe without texture.
InitPlanets ==
    /\ call = [fn |-> "none"]
    /\ GlobeIdle
    /\ planet_name = "undefined"
    /\ EventManagerIdle
    /\ autoRotate = TRUE
    /\ mouseEvent = NoEvent
    /\ pointerInside = TRUE
    /\ debugEnabled = FALSE
    /\ SunIdle
    /\ textureLoader \in {[version |-> v, planets |-> ListOf(<<>>),
                           response |-> [kind |-> "none"], loads |-> <<>>] :
                              v \in Versions}
    /\ app = [pc |-> "init", currentPlanetIndex |-> 0, texture |-> "none",
              selectValue |-> -1]

\* await this.textureLoader.init() completes and App.init runs on to its
\* next await: setupPlanetSelector calls planets.forEach, which throws
\* unless planets is an array, and loadTextures(planets[0]) is started.
LoaderInitDone ==
    /\ app.pc = "init"
    /\ \E response \in Responses :
         LET planets == TextureLoaderInit(textureLoader.version, response)
             isList == planets.kind = "list"
         IN /\ textureLoader' =
                   [textureLoader EXCEPT
                      !.planets = planets,
                      !.response = response,
                      !.loads = IF isList
                                THEN Append(@, [planet |-> PlanetAt(planets, 0),
                                                index |-> 0, by |-> "init",
                                                state |-> "pending", returned |-> FALSE])
                                ELSE @]
            /\ app' = [app EXCEPT
                         !.pc = IF isList THEN "loadingDefault" ELSE "crashed",
                         !.selectValue = IF isList /\ Len(planets.names) > 0 THEN 0 ELSE @]
    /\ UNCHANGED <<call, globeVars, eventVars, autoRotate, mouseEvent, pointerInside,
                   debugEnabled, sunVars>>

\* The server holds a manifest for the planets of PlanetNames and none for
\* any other planet.
HasManifest(planet) == planet \in PlanetNames

\* loadBiomeData after its await: updateBiomeMarkers() with the manifest of
\* the response, clearBiomeMarkers() when the response is not ok.
MarkersOfResponse(planet) ==
    IF HasManifest(planet) THEN BiomeLocationsOf(planet) ELSE {}

\* loadBiomeData(), up to its await: fetch(`./manifests/${planet_name}.json`)
LoadBiomeData(fetches, name) == Append(fetches, name)

\* The response of a manifest fetch arrives and loadBiomeData goes on.
ManifestArrives ==
    /\ \E i \in 1..Len(biomeFetches) :
        /\ biomeMarkers' = MarkersOfResponse(biomeFetches[i])
        /\ biomeFetches' = [j \in 1..(Len(biomeFetches) - 1) |->
                               IF j < i THEN biomeFetches[j] ELSE biomeFetches[j + 1]]
    /\ UNCHANGED <<call, globeVars, appVars, groupRotationY, planet_name, location,
                   isInteractingWithUI, isDragging, isSphereHovered, hitPoint,
                   positionInfo, biomeInfoVisible, cursorVisible, deepLink,
                   markerVisible, markerCoreVisible, isMarkerAnimating, arrowVisible,
                   arrowTimers>>

\* Mutant of UpdatePlanetName: the marker and its animation are left as
\* they are.
UpdatePlanetNameKeepsMarker(name) ==
    /\ planet_name' = name
    /\ deepLink' = [deepLink EXCEPT !.visible = FALSE]
    /\ arrowVisible' = FALSE
    /\ biomeFetches' = LoadBiomeData(biomeFetches, name)
    /\ UNCHANGED <<groupRotationY, biomeMarkers, location, isInteractingWithUI,
                   isDragging, isSphereHovered, hitPoint, positionInfo,
                   biomeInfoVisible, cursorVisible, arrowTimers, markerVisible,
                   markerCoreVisible, isMarkerAnimating>>

\* this.eventManager.updatePlanetName(planetName), with loadBiomeData up to
\* its await.
UpdatePlanetName(name) ==
    /\ planet_name' = name
    /\ deepLink' = [deepLink EXCEPT !.visible = FALSE]
    /\ arrowVisible' = FALSE
    /\ markerVisible' = FALSE
    /\ markerCoreVisible' = FALSE
    /\ isMarkerAnimating' = FALSE
    /\ biomeFetches' = LoadBiomeData(biomeFetches, name)
    /\ UNCHANGED <<groupRotationY, biomeMarkers, location, isInteractingWithUI,
                   isDragging, isSphereHovered, hitPoint, positionInfo,
                   biomeInfoVisible, cursorVisible, arrowTimers>>

\* The six images of a load arrive: onLoad resolves the promise, and the
\* function that awaits it goes on.  App.init sets the texture and builds
\* the EventManager with planets[currentPlanetIndex], whose constructor
\* calls loadBiomeData; changePlanet sets the
\* texture, the planet name and the selector from its own arguments.
LoadCompletes ==
    \E i \in 1..Len(textureLoader.loads) :
        LET load == textureLoader.loads[i]
        IN /\ load.state = "pending"
           /\ load.planet # "undefined"
           /\ textureLoader' = [textureLoader EXCEPT !.loads[i].state = "done",
                                                     !.loads[i].returned = TRUE]
           /\ IF load.by = "init"
              THEN /\ app' = [app EXCEPT !.texture = load.planet, !.pc = "running"]
                   /\ planet_name' =
                          PlanetAt(textureLoader.planets, app.currentPlanetIndex)
                   /\ biomeFetches' =
                          LoadBiomeData(biomeFetches,
                                        PlanetAt(textureLoader.planets,
                                                 app.currentPlanetIndex))
                   /\ UNCHANGED <<groupRotationY, biomeMarkers, location, isInteractingWithUI,
                                  isDragging, isSphereHovered, hitPoint, positionInfo,
                                  biomeInfoVisible, cursorVisible, deepLink,
                                  markerVisible, markerCoreVisible, isMarkerAnimating,
                                  arrowVisible, arrowTimers>>
              ELSE /\ app' = [app EXCEPT !.texture = load.planet,
                                         !.selectValue = load.index]
                   /\ UpdatePlanetName(load.planet)
           /\ UNCHANGED <<call, globeVars, autoRotate, mouseEvent, pointerInside,
                          debugEnabled, sunVars>>

\* An image of a load fails.  loader.load was given no onError and the
\* promise has no reject: the promise stays pending and the function that
\* awaits it never goes on, neither into its next statement nor into its
\* catch block.
LoadFails ==
    \E i \in 1..Len(textureLoader.loads) :
        /\ textureLoader.loads[i].state = "pending"
        /\ textureLoader' = [textureLoader EXCEPT !.loads[i].state = "failed"]
        /\ UNCHANGED <<call, globeVars, eventVars, autoRotate, mouseEvent,
                       pointerInside, debugEnabled, sunVars, app>>

\* async changePlanet(planetIndex), up to its await.
ChangePlanet(planetIndex) ==
    /\ app.pc = "running"
    /\ Len(textureLoader.loads) <= MaxLoads
    /\ IF planetIndex = app.currentPlanetIndex
       THEN UNCHANGED planetVars
       ELSE /\ app' = [app EXCEPT !.currentPlanetIndex = planetIndex]
            /\ textureLoader' =
                   [textureLoader EXCEPT
                      !.loads = StartLoad(@, planetIndex, "changePlanet")]
    /\ UNCHANGED <<call, globeVars, eventVars, autoRotate, mouseEvent, pointerInside,
                   debugEnabled, sunVars>>

PlanetCount == Len(textureLoader.planets.names)

\* keydown ArrowLeft: changePlanet(prevIndex), not awaited
ArrowLeft ==
    /\ app.pc = "running"
    /\ ChangePlanet((app.currentPlanetIndex - 1 + PlanetCount) % PlanetCount)

\* keydown ArrowRight: changePlanet(nextIndex), not awaited
ArrowRight ==
    /\ app.pc = "running"
    /\ ChangePlanet((app.currentPlanetIndex + 1) % PlanetCount)

\* change of the selector: changePlanet(parseInt(e.target.value))
SelectChange ==
    /\ app.pc = "running"
    /\ \E planetIndex \in 0..(PlanetCount - 1) : ChangePlanet(planetIndex)

NextPlanets ==
    \/ LoaderInitDone
    \/ LoadCompletes
    \/ LoadFails
    \/ ManifestArrives
    \/ ArrowLeft
    \/ ArrowRight
    \/ SelectChange

SpecPlanets == InitPlanets /\ [][NextPlanets]_vars

CurrentPlanet == PlanetAt(textureLoader.planets, app.currentPlanetIndex)

LoadsIn(states) ==
    {i \in 1..Len(textureLoader.loads) : textureLoader.loads[i].state \in states}

\* C18: once every load that was started has completed, the globe's
\* texture and the EventManager's planet_name are those of
\* planets[currentPlanetIndex].
C18_LoadsSettleOnCurrentPlanet ==
    (app.pc = "running" /\ LoadsIn({"pending", "failed"}) = {}) =>
        /\ app.texture = CurrentPlanet
        /\ planet_name = CurrentPlanet

\* C19: for a load of changePlanet that has failed, changePlanet has
\* returned, and the planet of currentPlanetIndex is the one whose texture
\* is shown and whose name the deep links carry.
C19_FailedLoadKeepsCurrentPlanet ==
    \A i \in LoadsIn({"failed"}) :
        (textureLoader.loads[i].by = "changePlanet" /\ LoadsIn({"pending"}) = {}) =>
            /\ textureLoader.loads[i].returned
            /\ app.texture = CurrentPlanet
            /\ planet_name = CurrentPlanet

\* The body of planets.json was parsed to an object with a non-empty list
\* of planets.
ServedList(response) ==
    /\ response.kind = "json"
    /\ response.data.kind = "object"
    /\ response.data.planets.kind = "list"
    /\ response.data.planets.names # <<>>

\* C20: when TextureLoader.init has completed, planets is a non-empty list:
\* the list of planets.json if the response holds one, the fallback list of
\* the class otherwise.
C20_PlanetsNonEmptyList ==
    app.pc # "init" =>
        /\ textureLoader.planets.kind = "list"
        /\ textureLoader.planets.names # <<>>
        /\ textureLoader.planets =
               (IF ServedList(textureLoader.response)
                THEN textureLoader.response.data.planets
                ELSE Fallback(textureLoader.version))

\* ------------------------------------------------------------------------
\* The EventManager between clicks, planet changes and late responses
\* ------------------------------------------------------------------------

MaxFetches == 2               \* at most MaxFetches manifest fetches are in flight

\* The planets of the selector: one with a manifest, one without.
ManagerPlanets == {"bob", "Mars1_4358"}

\* The points of the sphere that are clicked: one of each hemisphere.
ManagerHits ==
    {Vec(-48 * Deg, 60 * Deg, -64 * Deg),
     Vec((6 * One) \div 10 - 700, -3, (8 * One) \div 10 - 900)}

\* handleClick(event) with a ray that meets the sphere at one of ManagerHits.
ClickOnSphere == HandleSphereClickAt(ManagerHits)

\* App.changePlanet reaches this.eventManager.updatePlanetName(planetName).
PlanetChanged ==
    /\ Len(biomeFetches) < MaxFetches
    /\ \E name \in ManagerPlanets : UpdatePlanetName(name)
    /\ UNCHANGED <<call, globeVars, appVars>>

\* handleDeepLinkClick(): the listener of 'click' on #deep-link.  The
\* element is hidden by opacity 0 only and the anchor inside it has
\* pointer-events: none, so that a click on the place of the element
\* reaches the listener whether the 'visible' class is set or not.
HandleDeepLinkClick ==
    /\ location' = (IF deepLink.set THEN [href |-> deepLink.href] ELSE location)
    /\ UNCHANGED <<call, globeVars, appVars, groupRotationY, planet_name, biomeMarkers,
                   biomeFetches, isInteractingWithUI, isDragging, isSphereHovered,
                   hitPoint, positionInfo, biomeInfoVisible, cursorVisible, deepLink,
                   markerVisible, markerCoreVisible, isMarkerAnimating, arrowVisible,
                   arrowTimers>>

\* The EventManager of the planet "bob", its manifest loaded.
InitManager ==
    /\ call = [fn |-> "none"]
    /\ GlobeIdle
    /\ planet_name = "bob"
    /\ groupRotationY = 0
    /\ biomeMarkers = BiomeLocationsOf("bob")
    /\ biomeFetches = <<>>
    /\ location = ThePage
    /\ isInteractingWithUI = FALSE
    /\ isDragging = FALSE
    /\ isSphereHovered = FALSE
    /\ hitPoint = NoHit
    /\ positionInfo = [kind |-> "initial"]
    /\ biomeInfoVisible = FALSE
    /\ cursorVisible = FALSE
    /\ deepLink = [visible |-> FALSE, set |-> FALSE]
    /\ markerVisible = FALSE
    /\ markerCoreVisible = FALSE
    /\ isMarkerAnimating = FALSE
    /\ arrowVisible = FALSE
    /\ arrowTimers = 0
    /\ AppIdle

NextManager ==
    \/ ClickOnSphere
    \/ HandleOutsideClick
    \/ ArrowTimeout
    \/ PlanetChanged
    \/ ManifestArrives
    \/ HandleDeepLinkClick

SpecManager == InitManager /\ [][NextManager]_vars

\* C21: when no manifest fetch is in flight, the biome markers are those of
\* the manifest of planet_name, and none if that planet has no manifest.
C21_MarkersOfCurrentPlanet ==
    biomeFetches = <<>> => biomeMarkers = MarkersOfResponse(planet_name)

\* C22: a timeout that hides the arrow is the one started by the sphere
\* click that showed it: no timeout of an earlier click is still pending
\* when the arrow of a later click is hidden by a timer.
C22_ArrowHiddenByOwnTimer ==
    [][(arrowTimers' < arrowTimers /\ arrowVisible) => arrowTimers = 1]_vars

\* marker.visible, markerCore.visible, isMarkerAnimating and the 'visible'
\* class of the deep link and its anchor are all true.
LinkShown ==
    markerVisible /\ markerCoreVisible /\ isMarkerAnimating /\ deepLink.visible

\* They are all true or all false.
MarkerAndLinkAgree ==
    \/ LinkShown
    \/ ~markerVisible /\ ~markerCoreVisible /\ ~isMarkerAnimating /\ ~deepLink.visible

\* A step of handleSphereClick: the only one that starts a timeout.
IsSphereClick == arrowTimers' = arrowTimers + 1

\* C23: the four flags agree in every state; a sphere click sets them, an
\* outside click and a planet change clear them, and no other step changes
\* them: they are set exactly when the last of these events was a sphere
\* click.
C23_MarkerAndLinkShownTogether ==
    /\ []MarkerAndLinkAgree
    /\ [][/\ IsSphereClick => LinkShown'
          /\ (HandleOutsideClick \/ PlanetChanged) => ~LinkShown'
          /\ (~IsSphereClick /\ ~HandleOutsideClick /\ ~PlanetChanged) =>
                 (LinkShown' <=> LinkShown)]_vars

\* C23, witness: a planet change after a sphere click has hidden the marker
\* and the deep link made for the planet before.
C23_Witness ==
    /\ deepLink.set
    /\ deepLink.href.planet_name # planet_name
    /\ ~deepLink.visible
    /\ ~markerVisible /\ ~markerCoreVisible /\ ~isMarkerAnimating

\* C24: handleDeepLinkClick navigates only while the deep link is shown.
C24_NavigatesOnlyWhenShown ==
    [][location' # location => deepLink.visible]_vars

====
